---- MODULE Spec2Model ----
(***************************************************************************)
(* Binned dataset core of LightGBM (src/io/dataset.cpp): exclusive feature *)
(* bundling, Dataset::Construct, histogram construction and FixHistogram.  *)
(* C++ vectors are sequences; C++ index i is position i+1 (see At).        *)
(***************************************************************************)
EXTENDS Integers, Sequences, FiniteSets, TLC

VARIABLES
  pc,      \* lifecycle of the Dataset object: "new", "constructed", ...
  inp,     \* arguments of the pending / last Dataset::Construct call
  ds,      \* the Dataset object (its fields)
  bundle,  \* what the bundler returned to Construct (locals of Construct)
  hist,    \* the caller's buffers: hist_data, ordered_gradients, ordered_hessians
  call     \* the last call on the loaded Dataset: arguments and outcome

vars == <<pc, inp, ds, bundle, hist, call>>

---------------------------------------------------------------------------
(* Bounds of the model *)

MaxFeatures == 3
MaxRow == 2
HistFeatures == 2
MaxThreads == 2
MaxHistValue == 1
MaxAddFeatures == 2
MaxAddedTotal == 3
MaxResetFeatures == 2
MaxSaveFeatures == 2
MaxChunkThreads == 4
ManyThreads == 600

---------------------------------------------------------------------------
(* Generic helpers for 0-based C++ indexing *)

At(s, i) == s[i + 1]

Last(s) == s[Len(s)]

Min2(a, b) == IF a < b THEN a ELSE b

Max2(a, b) == IF a > b THEN a ELSE b

RECURSIVE SumSeq(_)
SumSeq(s) == IF s = <<>> THEN 0 ELSE s[1] + SumSeq(Tail(s))

RECURSIVE Flatten(_)
Flatten(ss) == IF ss = <<>> THEN <<>> ELSE ss[1] \o Flatten(Tail(ss))

Range(s) == {s[k] : k \in 1..Len(s)}

\* the elements of a finite set of integers, in increasing order
RECURSIVE Ascending(_)
Ascending(S) ==
  IF S = {} THEN <<>>
  ELSE LET m == CHOOSE x \in S : \A y \in S : x <= y
       IN <<m>> \o Ascending(S \ {m})

---------------------------------------------------------------------------
(* BinMapper: external collaborator, the attributes the core reads *)

NullMapper ==
  [null |-> TRUE, trivial |-> TRUE, num_bin |-> 1, default_bin |-> 0,
   most_freq_bin |-> 0, bin_of |-> <<0, 0>>]

BinMapper(nb, db, mfb, binof) ==
  [null |-> FALSE, trivial |-> FALSE, num_bin |-> nb, default_bin |-> db,
   most_freq_bin |-> mfb, bin_of |-> binof]

TrivialMapper ==
  [null |-> FALSE, trivial |-> TRUE, num_bin |-> 1, default_bin |-> 0,
   most_freq_bin |-> 0, bin_of |-> <<0, 0>>]

\* sample values are the non-zero values 1 and 2; bin_of[v] is the bin of v
ValueToBin(bm, v) == bm.bin_of[v]

GetDefaultBin(bm) == bm.default_bin

GetMostFreqBin(bm) == bm.most_freq_bin

is_trivial(bm) == bm.trivial

---------------------------------------------------------------------------
(* Random: external collaborator (utils/random.h) *)

\* Random::Sample(N, K): K distinct indices of [0, N) in increasing order.
\* With fewer than max_search_group groups K = N and the sample is all of
\* [0, N); for K < N this is one of the possible samples.
Sample(N, K) == IF K > N \/ K <= 0 THEN <<>> ELSE [i \in 1..K |-> i - 1]

\* Random::NextShort(lower, upper): any value of [lower, upper)
NextShort(lower, upper) == lower..(upper - 1)

---------------------------------------------------------------------------
(* Bundler: NoGroup, GetConfilctCount, MarkUsed, FixSampleIndices *)

max_search_group == 100
max_bin_per_group == 256
conflict_divisor == 10000
max_concurrent_feature_per_group == 64
max_bin_per_multi_val_group == 16384

NoGroup(used_features) ==
  [i \in 1..Len(used_features) |-> <<used_features[i]>>]

RECURSIVE GetConfilctCountFrom(_, _, _, _, _, _, _)
GetConfilctCountFrom(mark, indices, num_indices, max_cnt, max_feature_cnt, i, ret) ==
  IF i >= num_indices THEN ret
  ELSE LET m == At(mark, At(indices, i))
           ret2 == IF m # 0 THEN ret + 1 ELSE ret
       IN IF m # 0 /\ m + 1 > max_feature_cnt THEN -1
          ELSE IF ret2 >= max_cnt THEN -1
          ELSE GetConfilctCountFrom(mark, indices, num_indices, max_cnt,
                                    max_feature_cnt, i + 1, ret2)

GetConfilctCount(mark, indices, num_indices, max_cnt, max_feature_cnt) ==
  GetConfilctCountFrom(mark, indices, num_indices, max_cnt, max_feature_cnt, 0, 0)

\* marks are uint8_t
RECURSIVE MarkUsedFrom(_, _, _, _)
MarkUsedFrom(mark, indices, num_indices, i) ==
  IF i >= num_indices THEN mark
  ELSE LET r == At(indices, i) + 1
       IN MarkUsedFrom([mark EXCEPT ![r] = (@ + 1) % 256], indices, num_indices, i + 1)

MarkUsed(mark, indices, num_indices) == MarkUsedFrom(mark, indices, num_indices, 0)

RECURSIVE FixSampleIndicesFrom(_, _, _, _, _, _, _, _)
FixSampleIndicesFrom(bm, num_total_samples, num_indices, sample_indices, sample_values, i, j, ret) ==
  IF i >= num_total_samples THEN ret
  ELSE IF j < num_indices /\ At(sample_indices, j) < i
    THEN FixSampleIndicesFrom(bm, num_total_samples, num_indices, sample_indices,
                              sample_values, i, j + 1, ret)
  ELSE IF j < num_indices /\ At(sample_indices, j) = i
    THEN FixSampleIndicesFrom(bm, num_total_samples, num_indices, sample_indices,
           sample_values, i + 1, j,
           IF ValueToBin(bm, At(sample_values, j)) # GetMostFreqBin(bm)
             THEN Append(ret, i) ELSE ret)
  ELSE FixSampleIndicesFrom(bm, num_total_samples, num_indices, sample_indices,
                            sample_values, i + 1, j, Append(ret, i))

FixSampleIndices(bm, num_total_samples, num_indices, sample_indices, sample_values) ==
  IF GetDefaultBin(bm) = GetMostFreqBin(bm) THEN <<>>
  ELSE FixSampleIndicesFrom(bm, num_total_samples, num_indices, sample_indices,
                            sample_values, 0, 0, <<>>)

---------------------------------------------------------------------------
(* Bundler: FindGroups.  cx holds the arguments; st holds the parallel     *)
(* vectors features_in_group, conflict_marks, group_used_row_cnt,          *)
(* group_total_data_cnt, group_num_bin (and, in the second round,          *)
(* forced_single_val_group and multi_val_group).                           *)

single_val_max_conflict_cnt(cx) == cx.total_sample_cnt \div conflict_divisor

max_samples_per_multi_val_group(cx) == cx.total_sample_cnt * 10

is_filtered_feature(cx, fidx) == fidx >= cx.num_sample_col

cur_non_zero_cnt(cx, fidx) ==
  IF is_filtered_feature(cx, fidx) THEN 0 ELSE At(cx.num_per_col, fidx)

\* bin_mappers[fidx]->num_bin() + (GetDefaultBin() == 0 ? -1 : 0)
DeltaBin(cx, fidx) ==
  LET bm == At(cx.bin_mappers, fidx)
  IN bm.num_bin + (IF GetDefaultBin(bm) = 0 THEN -1 ELSE 0)

NumGroups(st) == Len(st.features_in_group)

GroupIds(st) == [g \in 1..NumGroups(st) |-> g - 1]

EmptyGroups ==
  [features_in_group |-> <<>>, conflict_marks |-> <<>>, group_used_row_cnt |-> <<>>,
   group_total_data_cnt |-> <<>>, group_num_bin |-> <<>>,
   forced_single_val_group |-> <<>>, multi_val_group |-> <<>>]

\* always the last available group, then the sampled ones
SearchGroups(available_groups) ==
  IF available_groups = <<>> THEN <<>>
  ELSE LET Pick(indices) ==
             <<Last(available_groups)>> \o
             [k \in 1..Len(indices) |-> At(available_groups, indices[k])]
           Draw(last) == Pick(Sample(last, Min2(last, max_search_group - 1)))
       IN Draw(Len(available_groups) - 1)

\* the features_in_group[best_gid].push_back(fidx) branch of both rounds
AddToGroup(cx, st, fidx, best_gid, best_conflict_cnt) ==
  LET g == best_gid + 1
      nz == cur_non_zero_cnt(cx, fidx)
  IN [st EXCEPT
        !.features_in_group[g] = Append(@, fidx),
        !.group_total_data_cnt[g] = @ + nz,
        !.group_used_row_cnt[g] = @ + nz - best_conflict_cnt,
        !.conflict_marks[g] =
            IF is_filtered_feature(cx, fidx) THEN @
            ELSE MarkUsed(@, At(cx.sample_indices, fidx), At(cx.num_per_col, fidx)),
        !.group_num_bin[g] = @ + DeltaBin(cx, fidx)]

\* the features_in_group.emplace_back() branch of both rounds
NewGroup(cx, st, fidx) ==
  LET nz == cur_non_zero_cnt(cx, fidx)
      zero == [r \in 1..cx.total_sample_cnt |-> 0]
  IN [st EXCEPT
        !.features_in_group = Append(@, <<fidx>>),
        !.conflict_marks = Append(@,
            IF is_filtered_feature(cx, fidx) THEN zero
            ELSE MarkUsed(zero, At(cx.sample_indices, fidx), At(cx.num_per_col, fidx))),
        !.group_total_data_cnt = Append(@, nz),
        !.group_used_row_cnt = Append(@, nz),
        !.group_num_bin = Append(@, 1 + DeltaBin(cx, fidx))]

(* first round: fill the single val group *)

FirstRoundAvailable(cx, st, fidx) ==
  LET ok(gid) ==
        /\ At(st.group_total_data_cnt, gid) + cur_non_zero_cnt(cx, fidx)
             <= cx.total_sample_cnt + single_val_max_conflict_cnt(cx)
        /\ (~cx.is_use_gpu
            \/ At(st.group_num_bin, gid) + DeltaBin(cx, fidx) <= max_bin_per_group)
  IN SelectSeq(GroupIds(st), ok)

FirstRoundConflict(cx, st, fidx, gid) ==
  LET rest_max_cnt == single_val_max_conflict_cnt(cx)
                        - At(st.group_total_data_cnt, gid) + At(st.group_used_row_cnt, gid)
  IN IF is_filtered_feature(cx, fidx) THEN 0
     ELSE GetConfilctCount(At(st.conflict_marks, gid), At(cx.sample_indices, fidx),
                           At(cx.num_per_col, fidx), rest_max_cnt, 1)

\* the search loop: the first searched group that accepts, or gid = -1
RECURSIVE FirstRoundSearch(_, _, _, _, _)
FirstRoundSearch(cx, st, fidx, search_groups, k) ==
  IF k > Len(search_groups) THEN [best_gid |-> -1, best_conflict_cnt |-> -1]
  ELSE LET Accept(gid, rest_max_cnt, cnt) ==
             IF cnt >= 0 /\ cnt <= rest_max_cnt /\ cnt <= cur_non_zero_cnt(cx, fidx) \div 2
               THEN [best_gid |-> gid, best_conflict_cnt |-> cnt]
               ELSE FirstRoundSearch(cx, st, fidx, search_groups, k + 1)
           Try(gid) ==
             Accept(gid,
                    single_val_max_conflict_cnt(cx)
                      - At(st.group_total_data_cnt, gid) + At(st.group_used_row_cnt, gid),
                    FirstRoundConflict(cx, st, fidx, gid))
       IN Try(search_groups[k])

FirstRoundStep(cx, st, fidx) ==
  LET Place(best) ==
        IF best.best_gid >= 0
          THEN AddToGroup(cx, st, fidx, best.best_gid, best.best_conflict_cnt)
          ELSE NewGroup(cx, st, fidx)
  IN Place(FirstRoundSearch(cx, st, fidx,
                            SearchGroups(FirstRoundAvailable(cx, st, fidx)), 1))

RECURSIVE FirstRound(_, _, _, _)
FirstRound(cx, st, find_order, k) ==
  IF k > Len(find_order) THEN st
  ELSE FirstRound(cx, FirstRoundStep(cx, st, find_order[k]), find_order, k + 1)

(* between the rounds: keep the dense groups, dissolve the others *)

\* static_cast<double>(used) / total_sample_cnt >= 0.6; 0/0 is NaN and compares
\* false, and for 32-bit counts the quotient is >= 0.6 exactly when 10*used >= 6*total
\* mutant: the threshold is one half
DenseEnoughHalf(used_row_cnt, total_sample_cnt) ==
  /\ ~(used_row_cnt = 0 /\ total_sample_cnt = 0)
  /\ 10 * used_row_cnt >= 5 * total_sample_cnt

DenseEnough(used_row_cnt, total_sample_cnt) ==
  /\ ~(used_row_cnt = 0 /\ total_sample_cnt = 0)
  /\ 10 * used_row_cnt >= 6 * total_sample_cnt

KeptGroups(cx, st) ==
  LET dense(gid) == DenseEnough(At(st.group_used_row_cnt, gid), cx.total_sample_cnt)
  IN SelectSeq(GroupIds(st), dense)

\* mutant: the features of the kept groups go to the second round as well
second_round_features_all(cx, st) == Flatten(st.features_in_group)

second_round_features(cx, st) ==
  LET sparse(gid) == ~DenseEnough(At(st.group_used_row_cnt, gid), cx.total_sample_cnt)
      FeaturesOf(dissolved) ==
        Flatten([k \in 1..Len(dissolved) |-> At(st.features_in_group, dissolved[k])])
  IN FeaturesOf(SelectSeq(GroupIds(st), sparse))

SecondRoundInit(cx, st) ==
  LET Keep(v, kept) == [k \in 1..Len(kept) |-> At(v, kept[k])]
      Moved(kept) ==
        [features_in_group |-> Keep(st.features_in_group, kept),
         conflict_marks |-> Keep(st.conflict_marks, kept),
         group_used_row_cnt |-> Keep(st.group_used_row_cnt, kept),
         group_total_data_cnt |-> Keep(st.group_total_data_cnt, kept),
         group_num_bin |-> Keep(st.group_num_bin, kept),
         forced_single_val_group |-> [k \in 1..Len(kept) |-> TRUE],
         multi_val_group |-> [k \in 1..Len(kept) |-> FALSE]]
  IN Moved(KeptGroups(cx, st))

(* second round: fill the multi-val group *)

SecondRoundAvailable(cx, st, fidx) ==
  LET ok(gid) ==
        LET cur_num_bin == At(st.group_num_bin, gid) + DeltaBin(cx, fidx)
            max_sample_cnt ==
              IF At(st.forced_single_val_group, gid)
                THEN cx.total_sample_cnt + single_val_max_conflict_cnt(cx)
                ELSE max_samples_per_multi_val_group(cx)
        IN /\ ~(At(st.multi_val_group, gid)
                /\ At(st.group_num_bin, gid) + cur_num_bin > max_bin_per_multi_val_group)
           /\ At(st.group_total_data_cnt, gid) + cur_non_zero_cnt(cx, fidx) <= max_sample_cnt
           /\ (~cx.is_use_gpu \/ cur_num_bin <= max_bin_per_group)
  IN SelectSeq(GroupIds(st), ok)

\* mutant: rest_max_cnt is not lowered for a forced single-val group
SecondRoundConflictUnclamped(cx, st, fidx, gid) ==
  IF is_filtered_feature(cx, fidx) THEN 0
  ELSE GetConfilctCount(At(st.conflict_marks, gid), At(cx.sample_indices, fidx),
                        At(cx.num_per_col, fidx), cx.total_sample_cnt,
                        max_concurrent_feature_per_group)

SecondRoundConflict(cx, st, fidx, gid) ==
  LET rest_max_cnt ==
        IF At(st.forced_single_val_group, gid)
          THEN Min2(cx.total_sample_cnt,
                    single_val_max_conflict_cnt(cx)
                      - At(st.group_total_data_cnt, gid) + At(st.group_used_row_cnt, gid))
          ELSE cx.total_sample_cnt
  IN IF is_filtered_feature(cx, fidx) THEN 0
     ELSE GetConfilctCount(At(st.conflict_marks, gid), At(cx.sample_indices, fidx),
                           At(cx.num_per_col, fidx), rest_max_cnt,
                           max_concurrent_feature_per_group)

\* mutant: only a forced single-val group with fewer conflicts replaces the best
SecondRoundBetterForced(st, gid, cnt, best_gid, best_conflict_cnt) ==
  cnt < best_conflict_cnt /\ At(st.forced_single_val_group, gid)

\* whether the searched group gid replaces the current best
SecondRoundBetter(st, gid, cnt, best_gid, best_conflict_cnt) ==
  \/ cnt < best_conflict_cnt
  \/ /\ cnt = best_conflict_cnt
     /\ \/ At(st.forced_single_val_group, gid)
        \/ At(st.group_total_data_cnt, best_gid) > At(st.group_total_data_cnt, gid)

RECURSIVE SecondRoundSearch(_, _, _, _, _, _, _)
SecondRoundSearch(cx, st, fidx, search_groups, k, best_gid, best_conflict_cnt) ==
  IF k > Len(search_groups)
    THEN [best_gid |-> best_gid, best_conflict_cnt |-> best_conflict_cnt]
  ELSE LET Update(gid, cnt, gid2, cnt2) ==
             IF cnt = 0 /\ At(st.forced_single_val_group, gid)
               THEN [best_gid |-> gid2, best_conflict_cnt |-> cnt2]
             ELSE SecondRoundSearch(cx, st, fidx, search_groups, k + 1, gid2, cnt2)
           Compare(gid, cnt, better) ==
             Update(gid, cnt, IF better THEN gid ELSE best_gid,
                    IF better THEN cnt ELSE best_conflict_cnt)
           Count(gid, cnt) ==
             IF cnt < 0
               THEN SecondRoundSearch(cx, st, fidx, search_groups, k + 1,
                                      best_gid, best_conflict_cnt)
             ELSE Compare(gid, cnt,
                          SecondRoundBetter(st, gid, cnt, best_gid, best_conflict_cnt))
           Try(gid) == Count(gid, SecondRoundConflict(cx, st, fidx, gid))
       IN Try(search_groups[k])

\* what one iteration of the search loop does with the searched group gid:
\* the count, the best before and after the comparison, whether the
\* comparison gets as far as reading group_total_data_cnt[best_gid] (the
\* operands before it are evaluated first and decide), and whether the loop
\* breaks
SearchIteration(st, gid, cnt, best_gid, best_conflict_cnt) ==
  IF cnt < 0
    THEN [gid |-> gid, cnt |-> cnt, best_gid |-> best_gid,
          best_conflict_cnt |-> best_conflict_cnt, reads_best_total |-> FALSE,
          next_best_gid |-> best_gid, next_best_conflict_cnt |-> best_conflict_cnt,
          breaks |-> FALSE]
  ELSE [gid |-> gid, cnt |-> cnt, best_gid |-> best_gid,
        best_conflict_cnt |-> best_conflict_cnt,
        reads_best_total |-> /\ ~(cnt < best_conflict_cnt)
                             /\ cnt = best_conflict_cnt
                             /\ ~At(st.forced_single_val_group, gid),
        next_best_gid |->
           IF SecondRoundBetter(st, gid, cnt, best_gid, best_conflict_cnt)
             THEN gid ELSE best_gid,
        next_best_conflict_cnt |->
           IF SecondRoundBetter(st, gid, cnt, best_gid, best_conflict_cnt)
             THEN cnt ELSE best_conflict_cnt,
        breaks |-> cnt = 0 /\ At(st.forced_single_val_group, gid)]

\* the iterations of the search loop for feature fidx, in order
RECURSIVE SecondRoundIterations(_, _, _, _, _, _, _)
SecondRoundIterations(cx, st, fidx, search_groups, k, best_gid, best_conflict_cnt) ==
  IF k > Len(search_groups) THEN <<>>
  ELSE LET Rest(it) ==
             IF it.breaks THEN <<it>>
             ELSE <<it>> \o SecondRoundIterations(cx, st, fidx, search_groups, k + 1,
                                                  it.next_best_gid,
                                                  it.next_best_conflict_cnt)
       IN Rest(SearchIteration(st, search_groups[k],
                               SecondRoundConflict(cx, st, fidx, search_groups[k]),
                               best_gid, best_conflict_cnt))

\* mutant: the group is never flagged multi-valued
FlipMultiValNever(cx, st, best_gid) == st

\* multi_val_group flips when the conflicts of the group exceed the budget
FlipMultiVal(cx, st, best_gid) ==
  LET g == best_gid + 1
  IN IF /\ ~st.multi_val_group[g]
        /\ st.group_total_data_cnt[g] - st.group_used_row_cnt[g]
             > single_val_max_conflict_cnt(cx)
       THEN [st EXCEPT !.multi_val_group[g] = TRUE]
       ELSE st

SecondRoundStep(cx, st, fidx) ==
  LET Opened(n) == [n EXCEPT !.forced_single_val_group = Append(@, FALSE),
                             !.multi_val_group = Append(@, FALSE)]
      Place(best) ==
        IF best.best_gid >= 0
          THEN FlipMultiVal(cx,
                 AddToGroup(cx, st, fidx, best.best_gid, best.best_conflict_cnt),
                 best.best_gid)
          ELSE Opened(NewGroup(cx, st, fidx))
  IN Place(SecondRoundSearch(cx, st, fidx,
                             SearchGroups(SecondRoundAvailable(cx, st, fidx)), 1,
                             -1, cx.total_sample_cnt + 1))

RECURSIVE SecondRound(_, _, _, _)
SecondRound(cx, st, features, k) ==
  IF k > Len(features) THEN st
  ELSE SecondRound(cx, SecondRoundStep(cx, st, features[k]), features, k + 1)

\* the returned features_in_group and *multi_val_group are the fields of the
\* same names; first_round is the state after the first round
FindGroups(cx, find_order) ==
  LET Returned(first, final) ==
        [features_in_group |-> final.features_in_group,
         multi_val_group |-> final.multi_val_group,
         forced_single_val_group |-> final.forced_single_val_group,
         group_total_data_cnt |-> final.group_total_data_cnt,
         group_used_row_cnt |-> final.group_used_row_cnt,
         group_num_bin |-> final.group_num_bin,
         conflict_marks |-> final.conflict_marks,
         first_round |-> first]
      Second(first) ==
        Returned(first, SecondRound(cx, SecondRoundInit(cx, first),
                                    second_round_features(cx, first), 1))
  IN Second(FirstRound(cx, EmptyGroups, find_order, 1))

---------------------------------------------------------------------------
(* Bundler: FastFeatureBundling *)

\* std::stable_sort of the positions by non zero cnt, bigger first
RECURSIVE StableSortDesc(_, _)
StableSortDesc(positions, cnt) ==
  IF positions = {} THEN <<>>
  ELSE LET first == CHOOSE a \in positions :
                      \A b \in positions :
                        cnt[a] > cnt[b] \/ (cnt[a] = cnt[b] /\ a <= b)
       IN <<first>> \o StableSortDesc(positions \ {first}, cnt)

feature_order_by_cnt(num_per_col, num_sample_col, used_features) ==
  LET feature_non_zero_cnt ==
        [k \in 1..Len(used_features) |->
           IF used_features[k] < num_sample_col
             THEN At(num_per_col, used_features[k]) ELSE 0]
      sorted_idx == StableSortDesc(1..Len(used_features), feature_non_zero_cnt)
  IN [k \in 1..Len(sorted_idx) |-> used_features[sorted_idx[k]]]

\* the loop over used_features that swaps in the fixed-up sample indices:
\* v.sample_indices and v.tmp_num_per_col after k-1 features, and for every
\* entry of the caller's array whether it still points to the caller's list
\* or to an element of the local tmp_indices
RECURSIVE FixedViews(_, _, _, _, _, _, _, _)
FixedViews(bin_mappers, sample_values, num_per_col, num_sample_col, total_sample_cnt, used_features, k, v) ==
  IF k > Len(used_features) THEN v
  ELSE LET Fixed(fidx, ret) ==
             IF fidx >= num_sample_col THEN v
             ELSE IF ret # <<>>
               THEN [sample_indices |-> [v.sample_indices EXCEPT ![fidx + 1] = ret],
                     tmp_num_per_col |-> [v.tmp_num_per_col EXCEPT ![fidx + 1] = Len(ret)],
                     points_to |-> [v.points_to EXCEPT ![fidx + 1] = "tmp_indices"]]
             ELSE [v EXCEPT !.tmp_num_per_col[fidx + 1] = At(num_per_col, fidx)]
           Fix(fidx) ==
             Fixed(fidx,
                   IF fidx >= num_sample_col THEN <<>>
                   ELSE FixSampleIndices(At(bin_mappers, fidx), total_sample_cnt,
                                         At(num_per_col, fidx), At(v.sample_indices, fidx),
                                         At(sample_values, fidx)))
       IN FixedViews(bin_mappers, sample_values, num_per_col, num_sample_col,
                     total_sample_cnt, used_features, k + 1, Fix(used_features[k]))

\* the draws of the shuffle loop: draws[i+1] = tmp_rand.NextShort(i + 1, num_group)
ShuffleDraws(num_group) ==
  IF num_group <= 1 THEN {<<>>}
  ELSE {d \in [1..(num_group - 1) -> 1..(num_group - 1)] :
          \A k \in 1..(num_group - 1) : d[k] \in NextShort(k, num_group)}

Swap(s, i, j) == [s EXCEPT ![i + 1] = s[j + 1], ![j + 1] = s[i + 1]]

\* mutant: the flags stay where they were
RECURSIVE ShuffleGroupsOnly(_, _, _)
ShuffleGroupsOnly(g, draws, i) ==
  IF i >= Len(g.features_in_group) - 1 THEN g
  ELSE ShuffleGroupsOnly([features_in_group |-> Swap(g.features_in_group, i, draws[i + 1]),
                          multi_val_group |-> g.multi_val_group],
                         draws, i + 1)

\* shuffle groups: both vectors are swapped at the same positions
RECURSIVE Shuffle(_, _, _)
Shuffle(g, draws, i) ==
  IF i >= Len(g.features_in_group) - 1 THEN g
  ELSE Shuffle([features_in_group |-> Swap(g.features_in_group, i, draws[i + 1]),
                multi_val_group |-> Swap(g.multi_val_group, i, draws[i + 1])],
               draws, i + 1)

\* everything up to the shuffle: the two FindGroups runs and the choice
BundlingChoice(bin_mappers, sample_indices, sample_values, num_per_col, num_sample_col, total_sample_cnt, used_features, is_use_gpu) ==
  LET Choice(cx, points_to, run1, run2) ==
        [chosen |-> IF Len(run1.features_in_group) > Len(run2.features_in_group)
                      THEN run2 ELSE run1,
         run1 |-> run1, run2 |-> run2, cx |-> cx, points_to |-> points_to]
      Runs(cx, points_to) ==
        Choice(cx, points_to, FindGroups(cx, used_features),
               FindGroups(cx, feature_order_by_cnt(num_per_col, num_sample_col,
                                                   used_features)))
      Views(v) ==
        Runs([bin_mappers |-> bin_mappers, sample_indices |-> v.sample_indices,
              num_per_col |-> v.tmp_num_per_col, num_sample_col |-> num_sample_col,
              total_sample_cnt |-> total_sample_cnt, is_use_gpu |-> is_use_gpu],
             v.points_to)
  IN Views(FixedViews(bin_mappers, sample_values, num_per_col, num_sample_col,
                      total_sample_cnt, used_features, 1,
                      [sample_indices |-> sample_indices,
                       tmp_num_per_col |-> [c \in 1..num_sample_col |-> 0],
                       points_to |-> [c \in 1..Len(sample_indices) |-> "caller"]]))

\* the shuffle of the chosen grouping and the two results of the call
ShuffledBundle(c, draws) ==
  LET Result(s) == [features_in_group |-> s.features_in_group,
                    multi_val_group |-> s.multi_val_group,
                    choice |-> c]
  IN Result(Shuffle([features_in_group |-> c.chosen.features_in_group,
                     multi_val_group |-> c.chosen.multi_val_group], draws, 0))

FastFeatureBundling(bin_mappers, sample_indices, sample_values, num_per_col, num_sample_col, total_sample_cnt, used_features, is_use_gpu, draws) ==
  ShuffledBundle(BundlingChoice(bin_mappers, sample_indices, sample_values,
                                num_per_col, num_sample_col, total_sample_cnt,
                                used_features, is_use_gpu), draws)

---------------------------------------------------------------------------
(* FeatureGroup: external collaborator (feature_group.h) *)

\* the many-feature constructor; num_total_bin is the sum of the bin counts
\* of the sub-features, plus one when the group is not multi-valued
FeatureGroup(num_feature, is_multi_val, bin_mappers, num_data) ==
  [num_feature |-> num_feature, is_multi_val |-> is_multi_val,
   bin_mappers |-> bin_mappers,
   num_total_bin |-> SumSeq([k \in 1..Len(bin_mappers) |-> bin_mappers[k].num_bin])
                       + (IF is_multi_val THEN 0 ELSE 1),
   num_data |-> num_data, bin_data |-> <<>>, finish_load_calls |-> 0]

---------------------------------------------------------------------------
(* Dataset: constructors and Construct *)

\* Dataset::Dataset(data_size_t num_data)
NewDataset(num_data) ==
  [num_data |-> num_data, is_finish_load |-> FALSE, data_filename |-> "noname",
   num_total_features |-> 0, num_features |-> 0, num_groups |-> 0,
   used_feature_map |-> <<>>, real_feature_idx |-> <<>>,
   feature2group |-> <<>>, feature2subfeature |-> <<>>,
   group_bin_boundaries |-> <<0>>,
   group_feature_start |-> <<>>, group_feature_cnt |-> <<>>,
   feature_need_push_zeros |-> <<>>, feature_groups |-> <<>>,
   monotone_types |-> <<>>, feature_penalty |-> <<>>, max_bin_by_feature |-> <<>>,
   feature_names |-> <<>>, forced_bin_bounds |-> <<>>,
   hist_buf |-> <<>>]

\* the features that are neither null nor trivial, by increasing index
UsedFeatures(bin_mappers) ==
  LET used(i) == ~At(bin_mappers, i).null /\ ~is_trivial(At(bin_mappers, i))
  IN SelectSeq([k \in 1..Len(bin_mappers) |-> k - 1], used)

\* one entry per (group i, sub-feature j) in the order the nested loop
\* visits them; entry number cur_fidx + 1 belongs to inner feature cur_fidx
InnerOrder(features_in_group) ==
  Flatten([g \in 1..Len(features_in_group) |->
             [j \in 1..Len(features_in_group[g]) |->
                [real_fidx |-> features_in_group[g][j], group |-> g - 1, sub |-> j - 1]]])

\* mutant: the group index is stored instead of the inner feature index
RECURSIVE FillUsedFeatureMapByGroup(_, _, _)
FillUsedFeatureMapByGroup(map, order, cur_fidx) ==
  IF cur_fidx >= Len(order) THEN map
  ELSE FillUsedFeatureMapByGroup(
         [map EXCEPT ![At(order, cur_fidx).real_fidx + 1] = At(order, cur_fidx).group],
         order, cur_fidx + 1)

\* used_feature_map_[real_fidx] = cur_fidx, in loop order
RECURSIVE FillUsedFeatureMap(_, _, _)
FillUsedFeatureMap(map, order, cur_fidx) ==
  IF cur_fidx >= Len(order) THEN map
  ELSE FillUsedFeatureMap([map EXCEPT ![At(order, cur_fidx).real_fidx + 1] = cur_fidx],
                          order, cur_fidx + 1)

NeedPushZeros(bin_mappers, order) ==
  LET need(cur_fidx) ==
        LET bm == At(bin_mappers, At(order, cur_fidx).real_fidx)
        IN GetDefaultBin(bm) # GetMostFreqBin(bm)
  IN SelectSeq([k \in 1..Len(order) |-> k - 1], need)

\* mutant: the bin count of the group is pushed instead of the running sum
RECURSIVE GroupBinBoundariesNoSum(_, _, _, _)
GroupBinBoundariesNoSum(feature_groups, num_groups, i, boundaries) ==
  IF i >= num_groups THEN boundaries
  ELSE GroupBinBoundariesNoSum(feature_groups, num_groups, i + 1,
         Append(boundaries, At(feature_groups, i).num_total_bin))

\* group_bin_boundaries_: cleared, 0 pushed, then the running sum
RECURSIVE GroupBinBoundaries(_, _, _, _)
GroupBinBoundaries(feature_groups, num_groups, i, boundaries) ==
  IF i >= num_groups THEN boundaries
  ELSE GroupBinBoundaries(feature_groups, num_groups, i + 1,
         Append(boundaries, Last(boundaries) + At(feature_groups, i).num_total_bin))

\* mutant: last_group is not updated when a new group starts
RECURSIVE GroupFeatureRangesStaleLast(_, _, _, _, _)
GroupFeatureRangesStaleLast(feature2group, num_features, i, last_group, r) ==
  IF i >= num_features THEN r
  ELSE LET group == At(feature2group, i)
       IN IF group = last_group
            THEN GroupFeatureRangesStaleLast(feature2group, num_features, i + 1,
                   last_group, [r EXCEPT !.cnt[Len(r.cnt)] = @ + 1])
            ELSE GroupFeatureRangesStaleLast(feature2group, num_features, i + 1,
                   last_group, [start |-> Append(r.start, i), cnt |-> Append(r.cnt, 1)])

\* group_feature_start_ / group_feature_cnt_: (0, 1) is pushed first, then the
\* loop over the inner features 1 .. num_features - 1
RECURSIVE GroupFeatureRanges(_, _, _, _, _)
GroupFeatureRanges(feature2group, num_features, i, last_group, r) ==
  IF i >= num_features THEN r
  ELSE LET group == At(feature2group, i)
       IN IF group = last_group
            THEN GroupFeatureRanges(feature2group, num_features, i + 1, last_group,
                   [r EXCEPT !.cnt[Len(r.cnt)] = @ + 1])
            ELSE GroupFeatureRanges(feature2group, num_features, i + 1, group,
                   [start |-> Append(r.start, i), cnt |-> Append(r.cnt, 1)])

\* vector::resize(n): keeps the first n entries, value-initialises the rest
Resize(v, n, zero) == [k \in 1..n |-> IF k <= Len(v) THEN v[k] ELSE zero]

\* monotone_types_ / feature_penalty_ from the per-real-feature config vector
RECURSIVE ScatterByInner(_, _, _, _)
ScatterByInner(dest, used_feature_map, values, i) ==
  IF i >= Len(used_feature_map) THEN dest
  ELSE LET inner_fidx == At(used_feature_map, i)
       IN ScatterByInner(IF inner_fidx >= 0
                           THEN [dest EXCEPT ![inner_fidx + 1] = At(values, i)]
                           ELSE dest,
                         used_feature_map, values, i + 1)

CheckAll(v, x) == \A k \in 1..Len(v) : v[k] = x

\* mutant: an all-zero vector is kept
ApplyMonotoneKeep(d, monotone_constraints) ==
  IF monotone_constraints = <<>> THEN d.monotone_types
  ELSE ScatterByInner(Resize(d.monotone_types, d.num_features, 0),
                      d.used_feature_map, monotone_constraints, 0)

ApplyMonotone(d, monotone_constraints) ==
  IF monotone_constraints = <<>> THEN d.monotone_types
  ELSE LET m == ScatterByInner(Resize(d.monotone_types, d.num_features, 0),
                               d.used_feature_map, monotone_constraints, 0)
       IN IF CheckAll(m, 0) THEN <<>> ELSE m

\* contributions are whole numbers; std::max(0.0, contri)
ApplyPenalty(d, feature_contri) ==
  IF feature_contri = <<>> THEN d.feature_penalty
  ELSE LET p == ScatterByInner(Resize(d.feature_penalty, d.num_features, 0),
                               d.used_feature_map,
                               [k \in 1..Len(feature_contri) |-> Max2(0, feature_contri[k])], 0)
       IN IF CheckAll(p, 1) THEN <<>> ELSE p

\* Dataset::Construct after the bundler returned g (features_in_group and
\* group_is_multi_val)
ConstructFrom(d, in, g) ==
  LET features_in_group == g.features_in_group
      order == InnerOrder(features_in_group)
      num_features == SumSeq([k \in 1..Len(features_in_group) |->
                                Len(features_in_group[k])])
      num_total_features == Len(in.bin_mappers)
      num_groups == Len(features_in_group)
      used_feature_map ==
        FillUsedFeatureMap([k \in 1..num_total_features |-> -1], order, 0)
      feature2group ==
        Resize([k \in 1..Len(order) |-> order[k].group], num_features, 0)
      feature_groups == d.feature_groups \o
        [i \in 1..num_groups |->
           FeatureGroup(Len(features_in_group[i]), g.multi_val_group[i],
                        [j \in 1..Len(features_in_group[i]) |->
                           At(in.bin_mappers, features_in_group[i][j])],
                        d.num_data)]
      ranges == GroupFeatureRanges(feature2group, num_features, 1, 0,
                  [start |-> Append(d.group_feature_start, 0),
                   cnt |-> Append(d.group_feature_cnt, 1)])
      d1 == [d EXCEPT
               !.num_total_features = num_total_features,
               !.num_features = num_features,
               !.num_groups = num_groups,
               !.used_feature_map = used_feature_map,
               !.real_feature_idx =
                  Resize([k \in 1..Len(order) |-> order[k].real_fidx], num_features, 0),
               !.feature2group = feature2group,
               !.feature2subfeature =
                  Resize([k \in 1..Len(order) |-> order[k].sub], num_features, 0),
               !.feature_need_push_zeros = NeedPushZeros(in.bin_mappers, order),
               !.feature_groups = feature_groups,
               !.group_bin_boundaries = GroupBinBoundaries(feature_groups, num_groups, 0, <<0>>),
               !.group_feature_start = ranges.start,
               !.group_feature_cnt = ranges.cnt]
  IN [d1 EXCEPT
        !.monotone_types = ApplyMonotone(d1, in.monotone_constraints),
        !.feature_penalty = ApplyPenalty(d1, in.feature_contri),
        !.max_bin_by_feature =
           IF in.max_bin_by_feature = <<>> THEN @ ELSE in.max_bin_by_feature,
        !.forced_bin_bounds = in.forced_bins]

---------------------------------------------------------------------------
(* BinStorage: external collaborator (bin.h), and loading *)

\* the value of feature real_fidx in row `row` of the data: the rows of the
\* data are the rows of the sample, 0 where the sample has no entry
RowValue(in, real_fidx, row) ==
  IF real_fidx >= in.num_sample_col THEN 0
  ELSE LET idx == At(in.sample_indices, real_fidx)
           at == {k \in 1..Len(idx) : idx[k] = row}
       IN IF at = {} THEN 0 ELSE At(in.sample_values, real_fidx)[CHOOSE k \in at : TRUE]

\* first bin of sub-feature `sub` inside its group: bin 0 of a group that is
\* not multi-valued is the shared zero bin
BinOffset(fg, sub) ==
  (IF fg.is_multi_val THEN 0 ELSE 1)
    + SumSeq([k \in 1..sub |-> fg.bin_mappers[k].num_bin])

\* the bins one row pushes into the group: a feature in its most frequent
\* bin pushes nothing; a group that is not multi-valued keeps one bin per row
PushedBins(in, fg, features, row) ==
  LET bin(j) == LET v == RowValue(in, features[j], row)
                    bm == fg.bin_mappers[j]
                IN IF v = 0 THEN GetDefaultBin(bm) ELSE ValueToBin(bm, v)
      pushing == SelectSeq([j \in 1..Len(features) |-> j],
                           LAMBDA j : bin(j) # GetMostFreqBin(fg.bin_mappers[j]))
      bins == [k \in 1..Len(pushing) |-> BinOffset(fg, pushing[k] - 1) + bin(pushing[k])]
  IN IF fg.is_multi_val THEN bins
     ELSE IF bins = <<>> THEN <<0>> ELSE <<Last(bins)>>

\* every row of the data pushed into the storage of every group
PushRows(d, in, g) ==
  [d EXCEPT
     !.feature_groups =
        [i \in 1..Len(@) |->
           [@[i] EXCEPT !.bin_data =
              [r \in 1..d.num_data |->
                 PushedBins(in, d.feature_groups[i], g.features_in_group[i], r - 1)]]]]

\* bin_data_->FinishLoad() of the groups 0 .. num_groups_ - 1; the model counts
\* the calls each storage receives
FinishLoadGroups(d) ==
  [i \in 1..Len(d.feature_groups) |->
     IF i <= d.num_groups
       THEN [d.feature_groups[i] EXCEPT !.finish_load_calls = @ + 1]
       ELSE d.feature_groups[i]]

\* mutant: is_finish_load_ is not looked at
FinishLoadAlways(d) ==
  [d EXCEPT !.feature_groups = FinishLoadGroups(d), !.is_finish_load = TRUE]

\* Dataset::FinishLoad
FinishLoad(d) ==
  IF d.is_finish_load THEN d
  ELSE [d EXCEPT !.feature_groups = FinishLoadGroups(d), !.is_finish_load = TRUE]

\* Dataset::CopySubset after its CHECK: every group takes the rows
\* used_indices of the same group of fullset; the storages are not finished
CopySubset(d, fullset, used_indices, num_used_indices) ==
  [d EXCEPT
     !.feature_groups =
        [i \in 1..Len(@) |->
           IF i <= d.num_groups
             THEN [@[i] EXCEPT !.bin_data =
                     [k \in 1..num_used_indices |->
                        fullset.feature_groups[i].bin_data[used_indices[k] + 1]]]
             ELSE @[i]],
     !.is_finish_load = TRUE]

\* a pointer argument: null, or the array it points to
nullptr == [null |-> TRUE, v |-> <<>>]

Ptr(v) == [null |-> FALSE, v |-> v]

\* GET_GRAD(hist, i) and GET_HESS(hist, i) of the histogram that starts at
\* entry `base` of the flat buffer, as positions of the sequence
GradAt(base, i) == base + 2 * i + 1

HessAt(base, i) == base + 2 * i + 2

RECURSIVE AddBins(_, _, _, _, _, _)
AddBins(out, base, bins, k, g, h) ==
  IF k > Len(bins) THEN out
  ELSE AddBins([out EXCEPT ![GradAt(base, bins[k])] = @ + g,
                           ![HessAt(base, bins[k])] = @ + h],
               base, bins, k + 1, g, h)

\* BinStorage::ConstructHistogram, all four overloads: data_indices null is
\* the range form, ordered_hessians null the form that adds 1 per row
RECURSIVE ConstructHistogram(_, _, _, _, _, _, _, _)
ConstructHistogram(bin_data, data_indices, i, end, ordered_gradients, ordered_hessians, out, base) ==
  IF i >= end THEN out
  ELSE LET row == IF data_indices.null THEN i ELSE At(data_indices.v, i)
           h == IF ordered_hessians.null THEN 1 ELSE At(ordered_hessians.v, i)
       IN ConstructHistogram(bin_data, data_indices, i + 1, end,
            ordered_gradients, ordered_hessians,
            AddBins(out, base, At(bin_data, row), 1, At(ordered_gradients.v, i), h),
            base)

---------------------------------------------------------------------------
(* Dataset::ConstructHistograms and Dataset::FixHistogram *)

min_row_size == 512

min_block_size == 512

\* std::memset of n entries from entry `base` on
ZeroFill(buf, base, n) ==
  [k \in 1..Len(buf) |-> IF k > base /\ k <= base + n THEN 0 ELSE buf[k]]

\* a group is used when one of its inner features is used
IsGroupUsed(d, is_feature_used, group) ==
  \E j \in 0..(At(d.group_feature_cnt, group) - 1) :
    At(is_feature_used, At(d.group_feature_start, group) + j)

used_dense_group(d, is_feature_used) ==
  SelectSeq([k \in 1..d.num_groups |-> k - 1],
            LAMBDA group : /\ IsGroupUsed(d, is_feature_used, group)
                           /\ ~At(d.feature_groups, group).is_multi_val)

used_sparse_group(d, is_feature_used) ==
  SelectSeq([k \in 1..d.num_groups |-> k - 1],
            LAMBDA group : /\ IsGroupUsed(d, is_feature_used, group)
                           /\ At(d.feature_groups, group).is_multi_val)

\* data_indices != nullptr && num_data < num_data_
UseSubset(d, a) == ~a.data_indices.null /\ a.num_data < d.num_data

\* the scatter of the gradients (and hessians) of the subset
OrderedGradients(d, a, b) ==
  IF UseSubset(d, a)
    THEN [k \in 1..Len(b.ordered_gradients) |->
            IF k <= a.num_data THEN At(a.gradients, At(a.data_indices.v, k - 1))
            ELSE b.ordered_gradients[k]]
  ELSE b.ordered_gradients

OrderedHessians(d, a, b) ==
  IF UseSubset(d, a) /\ ~a.is_constant_hessian
    THEN [k \in 1..Len(b.ordered_hessians) |->
            IF k <= a.num_data THEN At(a.hessians, At(a.data_indices.v, k - 1))
            ELSE b.ordered_hessians[k]]
  ELSE b.ordered_hessians

\* mutant: the offset of the group is not doubled
HistOffsetInBins(d, group) == At(d.group_bin_boundaries, group)

\* hist_data + group_bin_boundaries_[group] * 2
HistOffset(d, group) == At(d.group_bin_boundaries, group) * 2

\* GET_HESS(data_ptr, i) *= hessians[0] for the bins first .. last - 1
ScaleHess(buf, base, first, last, h0) ==
  [k \in 1..Len(buf) |->
     IF \E i \in first..(last - 1) : k = HessAt(base, i) THEN buf[k] * h0 ELSE buf[k]]

\* one iteration of the loop over the used dense groups
DenseGroup(d, a, ptr_ordered_grad, ptr_ordered_hess, hist_data, group) ==
  LET base == HistOffset(d, group)
      num_bin == At(d.feature_groups, group).num_total_bin
      zeroed == ZeroFill(hist_data, base, 2 * num_bin)
      built == ConstructHistogram(At(d.feature_groups, group).bin_data,
                 IF UseSubset(d, a) THEN a.data_indices ELSE nullptr,
                 0, a.num_data, ptr_ordered_grad,
                 IF a.is_constant_hessian THEN nullptr ELSE ptr_ordered_hess,
                 zeroed, base)
  IN IF a.is_constant_hessian
       THEN ScaleHess(built, base, 0, num_bin, At(a.hessians, 0))
     ELSE built

RECURSIVE DenseGroups(_, _, _, _, _, _, _)
DenseGroups(d, a, ptr_ordered_grad, ptr_ordered_hess, hist_data, groups, gi) ==
  IF gi >= Len(groups) THEN hist_data
  ELSE DenseGroups(d, a, ptr_ordered_grad, ptr_ordered_hess,
         DenseGroup(d, a, ptr_ordered_grad, ptr_ordered_hess, hist_data, At(groups, gi)),
         groups, gi + 1)

\* n_part = std::min(num_threads, (num_data + min_row_size - 1) / min_row_size)
n_part_of(num_threads, num_data) ==
  Min2(num_threads, (num_data + min_row_size - 1) \div min_row_size)

\* mutant: the step is rounded down
step_of_floor(num_data, n_part) == num_data \div n_part

\* step = (num_data + n_part - 1) / n_part
step_of(num_data, n_part) == (num_data + n_part - 1) \div n_part

\* start = tid * step
chunk_start(tid, step) == tid * step

\* mutant: the slot of a chunk is num_bin entries after the one before
chunk_base_single(tid, num_bin) == tid * num_bin

\* data_ptr = hist_buf_.data() + tid * num_bin * 2
chunk_base(tid, num_bin) == tid * num_bin * 2

\* end = std::min(start + step, num_data)
chunk_end(start, step, num_data) == Min2(start + step, num_data)

\* the chunk loop of one multi-valued group: chunk tid fills its own slot
RECURSIVE SparseChunks(_, _, _, _, _, _, _, _, _)
SparseChunks(d, a, ptr_ordered_grad, ptr_ordered_hess, hist_buf, group, n_part, step, tid) ==
  IF tid >= n_part THEN hist_buf
  ELSE LET num_bin == At(d.feature_groups, group).num_total_bin
           start == chunk_start(tid, step)
           end == chunk_end(start, step, a.num_data)
           base == chunk_base(tid, num_bin)
           zeroed == ZeroFill(hist_buf, base, 2 * num_bin)
           built == ConstructHistogram(At(d.feature_groups, group).bin_data,
                      IF UseSubset(d, a) THEN a.data_indices ELSE nullptr,
                      start, end, ptr_ordered_grad,
                      IF a.is_constant_hessian THEN nullptr ELSE ptr_ordered_hess,
                      zeroed, base)
       IN SparseChunks(d, a, ptr_ordered_grad, ptr_ordered_hess, built, group,
                       n_part, step, tid + 1)

\* n_block = std::min(num_threads, (num_bin + min_block_size - 2) / min_block_size)
n_block_of(num_threads, num_bin) ==
  Min2(num_threads, (num_bin + min_block_size - 2) \div min_block_size)

\* num_bin_per_threads = (num_bin + n_block - 2) / n_block
num_bin_per_threads_of(num_bin, n_block) == (num_bin + n_block - 2) \div n_block

\* mutant: the blocks start at bin 0
block_start_at_zero(t, num_bin_per_threads) == t * num_bin_per_threads

\* start = t * num_bin_per_threads + 1
block_start(t, num_bin_per_threads) == t * num_bin_per_threads + 1

\* end = std::min(start + num_bin_per_threads, num_bin)
block_end(start, num_bin_per_threads, num_bin) == Min2(start + num_bin_per_threads, num_bin)

\* the bins start .. end - 1 of every chunk added to the histogram at `base`,
\* and the hessians multiplied by h0 afterwards
MergeBins(hist_data, hist_buf, base, num_bin, n_part, start, end, h0) ==
  [k \in 1..Len(hist_data) |->
     IF k <= base \/ (k - base - 1) \div 2 < start \/ (k - base - 1) \div 2 >= end
       THEN hist_data[k]
     ELSE IF k = GradAt(base, (k - base - 1) \div 2)
       THEN hist_data[k]
              + SumSeq([tid \in 1..n_part |-> hist_buf[(tid - 1) * num_bin * 2 + (k - base)]])
     ELSE (hist_data[k]
             + SumSeq([tid \in 1..n_part |-> hist_buf[(tid - 1) * num_bin * 2 + (k - base)]]))
          * h0]

\* iteration t of the merge loop of one multi-valued group
MergeBlock(d, a, hist_data, hist_buf, group, n_part, t) ==
  LET Block(num_bin, start, num_bin_per_threads) ==
        MergeBins(hist_data, hist_buf, HistOffset(d, group), num_bin, n_part, start,
                  block_end(start, num_bin_per_threads, num_bin),
                  IF a.is_constant_hessian THEN At(a.hessians, 0) ELSE 1)
      Blocks(num_bin, num_bin_per_threads) ==
        Block(num_bin, block_start(t, num_bin_per_threads), num_bin_per_threads)
      Bins(num_bin) ==
        Blocks(num_bin,
               num_bin_per_threads_of(num_bin, n_block_of(a.num_threads, num_bin)))
  IN Bins(At(d.feature_groups, group).num_total_bin)

\* the merge of the chunks into hist_data: bin 0 is not merged
SparseMerge(d, a, hist_data, hist_buf, group, n_part) ==
  LET num_bin == At(d.feature_groups, group).num_total_bin
      base == HistOffset(d, group)
      zeroed == ZeroFill(hist_data, base, 2 * num_bin)
      n_block == n_block_of(a.num_threads, num_bin)
      num_bin_per_threads == num_bin_per_threads_of(num_bin, n_block)
      merged(i) == \E t \in 0..(n_block - 1) :
                     /\ i >= block_start(t, num_bin_per_threads)
                     /\ i < block_end(block_start(t, num_bin_per_threads),
                                      num_bin_per_threads, num_bin)
      chunks(pos) == SumSeq([tid \in 1..n_part |-> hist_buf[(tid - 1) * num_bin * 2 + pos]])
      h0 == IF a.is_constant_hessian THEN At(a.hessians, 0) ELSE 1
  IN [k \in 1..Len(hist_data) |->
        IF \E i \in 0..(num_bin - 1) : merged(i) /\ k = GradAt(base, i)
          THEN zeroed[k] + chunks(k - base)
        ELSE IF \E i \in 0..(num_bin - 1) : merged(i) /\ k = HessAt(base, i)
          THEN (zeroed[k] + chunks(k - base)) * h0
        ELSE zeroed[k]]

\* hist_buf_ at the start of the work on a multi-valued group: resized to
\* 2 * num_bin * num_threads entries when it is shorter
GrowHistBuf(d, a, group) ==
  IF 2 * At(d.feature_groups, group).num_total_bin * a.num_threads > Len(d.hist_buf)
    THEN Resize(d.hist_buf, 2 * At(d.feature_groups, group).num_total_bin * a.num_threads, 0)
  ELSE d.hist_buf

\* The elements one iteration of a parallel loop writes, as ranges [lo, hi)
\* of the entries of a buffer.

\* ordered_gradients[i] = ..., and ordered_hessians[i] = ... unless the
\* hessian is constant
ScatterWrites(a, i) ==
  {[buf |-> "ordered_gradients", lo |-> i, hi |-> i + 1]}
    \cup (IF a.is_constant_hessian THEN {}
          ELSE {[buf |-> "ordered_hessians", lo |-> i, hi |-> i + 1]})

\* the memset of num_bin entries at data_ptr, the histogram built at
\* data_ptr, and the hessians of the bins 0 .. num_bin - 1
DenseWrites(d, group) ==
  {[buf |-> "hist_data", lo |-> HistOffset(d, group),
    hi |-> HistOffset(d, group) + 2 * At(d.feature_groups, group).num_total_bin]}

\* the memset of the slot of chunk tid and the histogram built in it
ChunkWrites(d, group, tid) ==
  {[buf |-> "hist_buf",
    lo |-> chunk_base(tid, At(d.feature_groups, group).num_total_bin),
    hi |-> chunk_base(tid, At(d.feature_groups, group).num_total_bin)
             + 2 * At(d.feature_groups, group).num_total_bin]}

\* the bins start .. end - 1 of the slice of the group
MergeRange(buf, base, start, end) ==
  IF start < end THEN {[buf |-> buf, lo |-> base + 2 * start, hi |-> base + 2 * end]}
  ELSE {}

MergeWrites(d, a, group, t) ==
  LET Block(num_bin, start, num_bin_per_threads) ==
        MergeRange("hist_data", HistOffset(d, group), start,
                   block_end(start, num_bin_per_threads, num_bin))
      Blocks(num_bin, num_bin_per_threads) ==
        Block(num_bin, block_start(t, num_bin_per_threads), num_bin_per_threads)
      Bins(num_bin) ==
        Blocks(num_bin,
               num_bin_per_threads_of(num_bin, n_block_of(a.num_threads, num_bin)))
  IN Bins(At(d.feature_groups, group).num_total_bin)

\* the same bins of the slots of the chunks 0 .. n_part - 1, which the
\* iteration reads
MergeReads(d, a, group, n_part, t) ==
  LET Block(num_bin, start, num_bin_per_threads) ==
        UNION {MergeRange("hist_buf", chunk_base(tid, num_bin), start,
                          block_end(start, num_bin_per_threads, num_bin)) :
                 tid \in 0..(n_part - 1)}
      Blocks(num_bin, num_bin_per_threads) ==
        Block(num_bin, block_start(t, num_bin_per_threads), num_bin_per_threads)
      Bins(num_bin) ==
        Blocks(num_bin,
               num_bin_per_threads_of(num_bin, n_block_of(a.num_threads, num_bin)))
  IN Bins(At(d.feature_groups, group).num_total_bin)

\* the loop over the used multi-valued groups.  n_part is 0 when num_data
\* is 0, and step is then a division by zero: the call traps, or goes on
\* with no chunk to build
RECURSIVE SparseGroups(_, _, _, _, _, _, _)
SparseGroups(d, a, ptr_ordered_grad, ptr_ordered_hess, s, groups, gi) ==
  IF gi >= Len(groups) THEN {s}
  ELSE LET group == At(groups, gi)
           num_bin == At(d.feature_groups, group).num_total_bin
           hist_buf == IF 2 * num_bin * a.num_threads > Len(s.hist_buf)
                         THEN Resize(s.hist_buf, 2 * num_bin * a.num_threads, 0)
                       ELSE s.hist_buf
           n_part == n_part_of(a.num_threads, a.num_data)
           step == step_of(a.num_data, n_part)
           filled == IF n_part = 0 THEN hist_buf
                     ELSE SparseChunks(d, a, ptr_ordered_grad, ptr_ordered_hess,
                                       hist_buf, group, n_part, step, 0)
           done == [s EXCEPT !.hist_buf = filled,
                             !.hist_data = SparseMerge(d, a, s.hist_data, filled,
                                                       group, n_part)]
           rest == SparseGroups(d, a, ptr_ordered_grad, ptr_ordered_hess, done,
                                groups, gi + 1)
       IN IF n_part = 0
            THEN {[s EXCEPT !.hist_buf = hist_buf, !.outcome = "trap"]} \cup rest
          ELSE rest

\* Dataset::ConstructHistograms: the possible results of one call, from the
\* buffers b of the caller
ConstructHistograms(d, a, b) ==
  LET s0 == [hist_data |-> b.hist_data, hist_buf |-> d.hist_buf,
             ordered_gradients |-> b.ordered_gradients,
             ordered_hessians |-> b.ordered_hessians, outcome |-> "returned"]
  IN IF a.leaf_idx < 0 \/ a.num_data < 0 \/ a.hist_data_null THEN {s0}
     ELSE LET s1 == [s0 EXCEPT !.ordered_gradients = OrderedGradients(d, a, b),
                               !.ordered_hessians = OrderedHessians(d, a, b)]
              ptr_ordered_grad == IF UseSubset(d, a) THEN Ptr(s1.ordered_gradients)
                                  ELSE Ptr(a.gradients)
              ptr_ordered_hess == IF UseSubset(d, a) THEN Ptr(s1.ordered_hessians)
                                  ELSE Ptr(a.hessians)
              s2 == [s1 EXCEPT !.hist_data =
                       DenseGroups(d, a, ptr_ordered_grad, ptr_ordered_hess, @,
                                   used_dense_group(d, a.is_feature_used), 0)]
          IN SparseGroups(d, a, ptr_ordered_grad, ptr_ordered_hess, s2,
                          used_sparse_group(d, a.is_feature_used), 0)

\* mutant: the last bin is left out of the subtraction
FixHistogramShort(d, feature_idx, sum_gradient, sum_hessian, data) ==
  LET group == At(d.feature2group, feature_idx)
      sub_feature == At(d.feature2subfeature, feature_idx)
      bin_mapper == At(At(d.feature_groups, group).bin_mappers, sub_feature)
      most_freq_bin == GetMostFreqBin(bin_mapper)
      others == {i \in 0..(bin_mapper.num_bin - 2) : i # most_freq_bin}
  IN IF most_freq_bin > 0
       THEN [data EXCEPT
               ![GradAt(0, most_freq_bin)] =
                  sum_gradient - SumSeq([k \in 1..Cardinality(others) |->
                                           data[GradAt(0, Ascending(others)[k])]]),
               ![HessAt(0, most_freq_bin)] =
                  sum_hessian - SumSeq([k \in 1..Cardinality(others) |->
                                          data[HessAt(0, Ascending(others)[k])]])]
     ELSE data

\* Dataset::FixHistogram: `data` is the histogram of the feature
FixHistogram(d, feature_idx, sum_gradient, sum_hessian, data) ==
  LET group == At(d.feature2group, feature_idx)
      sub_feature == At(d.feature2subfeature, feature_idx)
      bin_mapper == At(At(d.feature_groups, group).bin_mappers, sub_feature)
      most_freq_bin == GetMostFreqBin(bin_mapper)
      others == {i \in 0..(bin_mapper.num_bin - 1) : i # most_freq_bin}
  IN IF most_freq_bin > 0
       THEN [data EXCEPT
               ![GradAt(0, most_freq_bin)] =
                  sum_gradient - SumSeq([k \in 1..Cardinality(others) |->
                                           data[GradAt(0, Ascending(others)[k])]]),
               ![HessAt(0, most_freq_bin)] =
                  sum_hessian - SumSeq([k \in 1..Cardinality(others) |->
                                          data[HessAt(0, Ascending(others)[k])]])]
     ELSE data

---------------------------------------------------------------------------
(* Dataset: CopyFeatureMapperFrom, CreateValid, addFeaturesFrom *)

\* Dataset::FeatureBinMapper(i): the mapper of inner feature i
FeatureBinMapper(d, i) ==
  At(At(d.feature_groups, At(d.feature2group, i)).bin_mappers, At(d.feature2subfeature, i))

\* the groups are rebuilt empty for the receiver's row count; the maps, the
\* optional vectors (not max_bin_by_feature) and the zero-push list are copied
CopyFeatureMapperFrom(d, dataset) ==
  [d EXCEPT
     !.feature_groups =
        [i \in 1..dataset.num_groups |->
           FeatureGroup(dataset.feature_groups[i].num_feature,
                        dataset.feature_groups[i].is_multi_val,
                        dataset.feature_groups[i].bin_mappers, d.num_data)],
     !.num_features = dataset.num_features,
     !.num_groups = dataset.num_groups,
     !.used_feature_map = dataset.used_feature_map,
     !.num_total_features = dataset.num_total_features,
     !.feature_names = dataset.feature_names,
     !.real_feature_idx = dataset.real_feature_idx,
     !.feature2group = dataset.feature2group,
     !.feature2subfeature = dataset.feature2subfeature,
     !.group_bin_boundaries = dataset.group_bin_boundaries,
     !.group_feature_start = dataset.group_feature_start,
     !.group_feature_cnt = dataset.group_feature_cnt,
     !.monotone_types = dataset.monotone_types,
     !.feature_penalty = dataset.feature_penalty,
     !.forced_bin_bounds = dataset.forced_bin_bounds,
     !.feature_need_push_zeros = dataset.feature_need_push_zeros]

\* the inner features i whose mapper has default_bin != most_freq_bin
ValidNeedPushZeros(dataset) ==
  LET need(i) == GetDefaultBin(FeatureBinMapper(dataset, i))
                   # GetMostFreqBin(FeatureBinMapper(dataset, i))
  IN SelectSeq([k \in 1..dataset.num_features |-> k - 1], need)

\* one group per inner feature; boundaries and ranges are rebuilt as in
\* Construct, the start and count vectors being pushed onto what they hold
CreateValid(d, dataset) ==
  LET Built(feature_groups, feature2group, ranges) ==
        [d EXCEPT
           !.feature_groups = feature_groups,
           !.num_features = dataset.num_features,
           !.num_groups = dataset.num_features,
           !.feature2group = feature2group,
           !.feature2subfeature = [i \in 1..dataset.num_features |-> 0],
           !.feature_need_push_zeros = ValidNeedPushZeros(dataset),
           !.used_feature_map = dataset.used_feature_map,
           !.num_total_features = dataset.num_total_features,
           !.feature_names = dataset.feature_names,
           !.real_feature_idx = dataset.real_feature_idx,
           !.group_bin_boundaries =
              GroupBinBoundaries(feature_groups, dataset.num_features, 0, <<0>>),
           !.group_feature_start = ranges.start,
           !.group_feature_cnt = ranges.cnt,
           !.monotone_types = dataset.monotone_types,
           !.feature_penalty = dataset.feature_penalty,
           !.forced_bin_bounds = dataset.forced_bin_bounds]
      Ranged(feature_groups, feature2group) ==
        Built(feature_groups, feature2group,
              GroupFeatureRanges(feature2group, dataset.num_features, 1, 0,
                                 [start |-> Append(d.group_feature_start, 0),
                                  cnt |-> Append(d.group_feature_cnt, 1)]))
  IN Ranged([i \in 1..dataset.num_features |->
               FeatureGroup(1, FALSE, <<FeatureBinMapper(dataset, i - 1)>>, d.num_data)],
            [i \in 1..dataset.num_features |-> i - 1])

PushVector(dest, src) == dest \o src

\* mutant: the offset is not added
PushOffsetNone(dest, src, offset) == dest \o src

PushOffset(dest, src, offset) == dest \o [k \in 1..Len(src) |-> src[k] + offset]

PushClearIfEmpty(dest, dest_len, src, src_len, deflt) ==
  IF dest # <<>> /\ src # <<>> THEN PushVector(dest, src)
  ELSE IF dest # <<>> /\ src = <<>> THEN dest \o [i \in 1..src_len |-> deflt]
  ELSE IF dest = <<>> /\ src # <<>>
    THEN PushVector([i \in 1..dest_len |-> deflt], src)
  ELSE dest

\* the used_feature_map_ loop: used features are renumbered, -1 stays -1
PushUsedFeatureMap(dest, src, num_features) ==
  dest \o [k \in 1..Len(src) |-> IF src[k] >= 0 THEN src[k] + num_features ELSE -1]

\* the boundaries of other after its leading 0, shifted by the receiver's last
PushBinBoundaries(dest, src) ==
  dest \o [k \in 1..(Len(src) - 1) |-> src[k + 1] + Last(dest)]

\* Dataset::addFeaturesFrom for equal row counts; a different row count throws
\* before anything is written
addFeaturesFrom(d, other) ==
  [d EXCEPT
     !.feature_names = PushVector(@, other.feature_names),
     !.feature2subfeature = PushVector(@, other.feature2subfeature),
     !.group_feature_cnt = PushVector(@, other.group_feature_cnt),
     !.forced_bin_bounds = PushVector(@, other.forced_bin_bounds),
     !.feature_groups = @ \o other.feature_groups,
     !.used_feature_map = PushUsedFeatureMap(@, other.used_feature_map, d.num_features),
     !.real_feature_idx = PushOffset(@, other.real_feature_idx, d.num_total_features),
     !.feature2group = PushOffset(@, other.feature2group, d.num_groups),
     !.group_bin_boundaries = PushBinBoundaries(@, other.group_bin_boundaries),
     !.group_feature_start = PushOffset(@, other.group_feature_start, d.num_features),
     !.monotone_types = PushClearIfEmpty(@, d.num_total_features, other.monotone_types,
                                         other.num_total_features, 0),
     !.feature_penalty = PushClearIfEmpty(@, d.num_total_features, other.feature_penalty,
                                          other.num_total_features, 1),
     !.max_bin_by_feature = PushClearIfEmpty(@, d.num_total_features,
                                             other.max_bin_by_feature,
                                             other.num_total_features, -1),
     !.num_features = @ + other.num_features,
     !.num_total_features = @ + other.num_total_features,
     !.num_groups = @ + other.num_groups]

---------------------------------------------------------------------------
(* Dataset: ResetConfig *)

\* the two CHECKs stop the call when a supplied vector has not one entry per
\* real feature; the monotone constraints are applied before the
\* contributions are looked at
ResetConfigFails(d, monotone_constraints, feature_contri) ==
  \/ (monotone_constraints # <<>> /\ Len(monotone_constraints) # d.num_total_features)
  \/ (feature_contri # <<>> /\ Len(feature_contri) # d.num_total_features)

ResetConfig(d, monotone_constraints, feature_contri) ==
  IF monotone_constraints # <<>> /\ Len(monotone_constraints) # d.num_total_features
    THEN d
  ELSE IF feature_contri # <<>> /\ Len(feature_contri) # d.num_total_features
    THEN [d EXCEPT !.monotone_types = ApplyMonotone(d, monotone_constraints)]
  ELSE [d EXCEPT !.monotone_types = ApplyMonotone(d, monotone_constraints),
                 !.feature_penalty = ApplyPenalty(d, feature_contri)]

---------------------------------------------------------------------------
(* Dataset: SaveBinaryFile.  The file is the sequence of the writer's Write *)
(* calls, each with the number of bytes it was asked to write.             *)

\* sizes of the types of the header, in bytes
sizeof(type) ==
  CASE type \in {"int", "int32_t", "data_size_t"} -> 4
    [] type \in {"bool", "int8_t", "char"} -> 1
    [] type \in {"double", "uint64_t", "size_t"} -> 8

\* std::strlen(binary_file_token)
size_of_token == 39

\* Dataset::set_feature_names
set_feature_names(d, feature_names) == [d EXCEPT !.feature_names = feature_names]

\* mutant: the two bool fields are not counted
size_of_header_no_bools(d) ==
  sizeof("data_size_t") + sizeof("int") + sizeof("int")
    + sizeof("int") * d.num_total_features + sizeof("int") + sizeof("int")
    + 3 * sizeof("int") * d.num_features + sizeof("uint64_t") * (d.num_groups + 1)
    + 2 * sizeof("int") * d.num_groups + sizeof("int8_t") * d.num_features
    + sizeof("double") * d.num_features + sizeof("int32_t") * d.num_total_features
    + sizeof("int") * 3
    + SumSeq([i \in 1..d.num_total_features |->
                Len(d.feature_names[i]) + sizeof("int")])
    + SumSeq([i \in 1..d.num_total_features |->
                Len(d.forced_bin_bounds[i]) * sizeof("double") + sizeof("int")])

\* size_of_header as SaveBinaryFile computes it before it writes the header
size_of_header(d) ==
  sizeof("data_size_t") + sizeof("int") + sizeof("int")
    + sizeof("int") * d.num_total_features + sizeof("int") + sizeof("int")
    + 3 * sizeof("int") * d.num_features + sizeof("uint64_t") * (d.num_groups + 1)
    + 2 * sizeof("int") * d.num_groups + sizeof("int8_t") * d.num_features
    + sizeof("double") * d.num_features + sizeof("int32_t") * d.num_total_features
    + sizeof("int") * 3 + sizeof("bool") * 2
    + SumSeq([i \in 1..d.num_total_features |->
                Len(d.feature_names[i]) + sizeof("int")])
    + SumSeq([i \in 1..d.num_total_features |->
                Len(d.forced_bin_bounds[i]) * sizeof("double") + sizeof("int")])

Write(field, bytes) == [field |-> field, bytes |-> bytes]

\* the writes of the feature names: a length, then the characters
NameWrites(d) ==
  Flatten([i \in 1..d.num_total_features |->
             <<Write("str_len", sizeof("int")),
               Write("feature_name", sizeof("char") * Len(d.feature_names[i]))>>])

\* the writes of the forced bins: a count, then one write per bound
ForcedBinWrites(d) ==
  Flatten([i \in 1..d.num_total_features |->
             <<Write("num_bounds", sizeof("int"))>> \o
             [j \in 1..Len(d.forced_bin_bounds[i]) |->
                Write("forced_bin_bound", sizeof("double"))]])

\* the writes from the token to the size of the meta data; the meta data and
\* the feature groups write themselves after that
HeaderWrites(d) ==
  <<Write("token", size_of_token),
    Write("size_of_header", sizeof("size_t")),
    Write("num_data", sizeof("data_size_t")),
    Write("num_features", sizeof("int")),
    Write("num_total_features", sizeof("int")),
    Write("label_idx", sizeof("int")),
    Write("max_bin", sizeof("int")),
    Write("bin_construct_sample_cnt", sizeof("int")),
    Write("min_data_in_bin", sizeof("int")),
    Write("use_missing", sizeof("bool")),
    Write("zero_as_missing", sizeof("bool")),
    Write("used_feature_map", sizeof("int") * d.num_total_features),
    Write("num_groups", sizeof("int")),
    Write("real_feature_idx", sizeof("int") * d.num_features),
    Write("feature2group", sizeof("int") * d.num_features),
    Write("feature2subfeature", sizeof("int") * d.num_features),
    Write("group_bin_boundaries", sizeof("uint64_t") * (d.num_groups + 1)),
    Write("group_feature_start", sizeof("int") * d.num_groups),
    Write("group_feature_cnt", sizeof("int") * d.num_groups),
    Write("monotone_types", sizeof("int8_t") * d.num_features),
    Write("feature_penalty", sizeof("double") * d.num_features),
    Write("max_bin_by_feature", sizeof("int32_t") * d.num_total_features)>>
  \o NameWrites(d) \o ForcedBinWrites(d)
  \o <<Write("size_of_metadata", sizeof("size_t"))>>

\* mutant: the vector filled for the write is not cleared again
SavedOptionalKeep(v, deflt, n) == IF v = <<>> THEN [k \in 1..n |-> deflt] ELSE v

\* an optional vector around its write: filled with n defaults when empty,
\* written, and cleared when every entry is the default
SavedOptional(v, deflt, n) ==
  LET Cleared(w) == IF CheckAll(w, deflt) THEN <<>> ELSE w
  IN Cleared(IF v = <<>> THEN [k \in 1..n |-> deflt] ELSE v)

\* the name of the file that is written
TargetName(d, bin_filename) ==
  IF bin_filename.null \/ bin_filename.v = "" THEN d.data_filename \o ".bin"
  ELSE bin_filename.v

\* Dataset::SaveBinaryFile: files are the names that exist, writer_ok is the
\* result of the writer's Init
SaveBinaryFile(d, bin_filename, files, writer_ok) ==
  IF ~bin_filename.null /\ bin_filename.v = d.data_filename
    THEN [d |-> d, written |-> <<>>, outcome |-> "same file"]
  ELSE IF TargetName(d, bin_filename) \in files
    THEN [d |-> d, written |-> <<>>, outcome |-> "file exists"]
  ELSE IF ~writer_ok
    THEN [d |-> d, written |-> <<>>, outcome |-> "fatal"]
  ELSE [d |-> [d EXCEPT
                 !.monotone_types = SavedOptional(@, 0, d.num_features),
                 !.feature_penalty = SavedOptional(@, 1, d.num_features),
                 !.max_bin_by_feature = SavedOptional(@, 0 - 1, d.num_total_features)],
        written |-> HeaderWrites(d),
        size_of_header |-> size_of_header(d),
        outcome |-> "saved"]

---------------------------------------------------------------------------
(* The arguments of Construct that the model explores *)

\* a mapper whose zero bin is also its most frequent bin
MapperA == BinMapper(2, 0, 0, <<1, 1>>)

\* a mapper whose default bin differs from its most frequent bin; value 1
\* falls into the most frequent bin, value 2 does not
MapperB == BinMapper(3, 1, 0, <<0, 2>>)

\* a mapper that nearly fills a group of max_bin_per_group bins
\* a mapper whose most frequent bin is the bin of the value 1
MapperC == BinMapper(3, 0, 1, <<1, 2>>)

MapperG == BinMapper(max_bin_per_group - 1, 0, 0, <<1, 1>>)

RowPatterns(rows) ==
  {{}, {r \in rows : r % 2 = 0}, {r \in rows : r % 2 = 1}, rows}

\* one feature of the input: its mapper, its non-zero sample rows and the
\* value all of them hold
Unsampled(bm) == [bm |-> bm, rows |-> {}, val |-> 1]

UnusedCases == {Unsampled(NullMapper), Unsampled(TrivialMapper)}

CasesA(rows) == {[bm |-> MapperA, rows |-> p, val |-> 1] : p \in RowPatterns(rows)}

CasesB(rows) ==
  {[bm |-> MapperB, rows |-> p, val |-> 1] : p \in RowPatterns(rows)}
  \cup {[bm |-> MapperB, rows |-> rows, val |-> 2]}

CasesC(rows) == {[bm |-> MapperC, rows |-> p, val |-> 1] : p \in RowPatterns(rows)}

CasesG(rows) == {[bm |-> MapperG, rows |-> p, val |-> 1] : p \in RowPatterns(rows)}

ConstructInput(cases, num_sample_col, total_sample_cnt, enable_bundle, is_use_gpu) ==
  [bin_mappers |-> [f \in 1..Len(cases) |-> cases[f].bm],
   sample_indices |-> [c \in 1..num_sample_col |-> Ascending(cases[c].rows)],
   sample_values |-> [c \in 1..num_sample_col |->
                        [k \in 1..Cardinality(cases[c].rows) |-> cases[c].val]],
   num_per_col |-> [c \in 1..num_sample_col |-> Cardinality(cases[c].rows)],
   num_sample_col |-> num_sample_col,
   total_sample_cnt |-> total_sample_cnt,
   enable_bundle |-> enable_bundle, is_use_gpu |-> is_use_gpu,
   monotone_constraints |-> <<>>, feature_contri |-> <<>>,
   max_bin_by_feature |-> <<>>,
   forced_bins |-> [f \in 1..Len(cases) |-> <<>>]]

SampleRows == 0..(MaxRow - 1)

\* bundling on the CPU: every row of the sample is one of SampleRows; the
\* last feature may lie beyond the sampled columns
CpuInputs ==
  {ConstructInput(cases, Len(cases) - filtered, MaxRow, TRUE, FALSE) :
     cases \in UNION {[1..nf -> UnusedCases \cup CasesA(SampleRows) \cup CasesB(SampleRows)] :
                        nf \in 1..MaxFeatures},
     filtered \in 0..1}

\* bundling for the GPU: the first feature nearly fills its group
GpuInputs ==
  {ConstructInput(<<first>> \o cases, 1 + Len(cases), MaxRow, TRUE, TRUE) :
     first \in CasesG(SampleRows),
     cases \in UNION {[1..nf -> UnusedCases \cup CasesA(SampleRows) \cup CasesB(SampleRows)] :
                        nf \in 0..(MaxFeatures - 1)}}

\* bundling disabled: the samples are not read
PlainInputs ==
  {ConstructInput(cases, Len(cases), MaxRow, FALSE, FALSE) :
     cases \in UNION {[1..nf -> UnusedCases \cup {Unsampled(MapperA), Unsampled(MapperB)}] :
                        nf \in 0..MaxFeatures}}

\* a sample large enough for a non-zero conflict budget, of which only the
\* rows of SampleRows are non-zero anywhere
LargeSampleInputs ==
  {ConstructInput(cases, Len(cases), conflict_divisor, TRUE, FALSE) :
     cases \in UNION {[1..nf -> CasesA(SampleRows)] : nf \in 1..MaxFeatures}}

ConstructInputs == CpuInputs \cup GpuInputs \cup PlainInputs \cup LargeSampleInputs

\* what Construct's locals hold after the bundler returned: the grouping, and
\* (when FastFeatureBundling ran) the views and counters of the chosen run,
\* the groupings of both runs, and where the entries of the caller's
\* sample_indices array point: tmp_indices is gone when the call returns
NoBundle == [features_in_group |-> <<>>, multi_val_group |-> <<>>,
             used_features |-> <<>>, bundled |-> FALSE, chosen |-> <<>>]

Observed(c) ==
  [sample_indices |-> c.cx.sample_indices, num_per_col |-> c.cx.num_per_col,
   features_in_group |-> c.chosen.features_in_group,
   multi_val_group |-> c.chosen.multi_val_group,
   forced_single_val_group |-> c.chosen.forced_single_val_group,
   group_total_data_cnt |-> c.chosen.group_total_data_cnt,
   group_used_row_cnt |-> c.chosen.group_used_row_cnt,
   num_groups1 |-> Len(c.run1.features_in_group),
   num_groups2 |-> Len(c.run2.features_in_group),
   features_in_group1 |-> c.run1.features_in_group,
   multi_val_group1 |-> c.run1.multi_val_group,
   features_in_group2 |-> c.run2.features_in_group,
   multi_val_group2 |-> c.run2.multi_val_group,
   points_to |-> c.points_to]

---------------------------------------------------------------------------
(* Specification: a fresh Dataset, one call of Construct *)

NoBuffers == [hist_data |-> <<>>, ordered_gradients |-> <<>>, ordered_hessians |-> <<>>]

NoCall == [op |-> "none"]

Init ==
  \E in \in ConstructInputs :
    /\ inp = in
    /\ ds = NewDataset(Max2(1, in.total_sample_cnt))
    /\ pc = "new"
    /\ bundle = NoBundle
    /\ hist = NoBuffers
    /\ call = NoCall

\* what the bundling step of Construct can leave in its locals: NoGroup with
\* no multi-val group, or the result of FastFeatureBundling for some draws
BundlerResults(in) ==
  LET Bundled(used_features, c) ==
        {[features_in_group |-> g.features_in_group,
          multi_val_group |-> g.multi_val_group,
          used_features |-> used_features,
          bundled |-> TRUE, chosen |-> Observed(c)] :
           g \in {ShuffledBundle(c, draws) :
                    draws \in ShuffleDraws(Len(c.chosen.features_in_group))}}
      Results(used_features) ==
        IF in.enable_bundle /\ used_features # <<>>
          THEN Bundled(used_features,
                 BundlingChoice(in.bin_mappers, in.sample_indices,
                                in.sample_values, in.num_per_col, in.num_sample_col,
                                in.total_sample_cnt, used_features, in.is_use_gpu))
        ELSE {[features_in_group |-> NoGroup(used_features),
               multi_val_group |-> [k \in 1..Len(used_features) |-> FALSE],
               used_features |-> used_features,
               bundled |-> FALSE, chosen |-> <<>>]}
  IN Results(UsedFeatures(in.bin_mappers))

Construct ==
  /\ pc = "new"
  /\ \E g \in BundlerResults(inp) :
       /\ bundle' = g
       /\ ds' = ConstructFrom(ds, inp, g)
  /\ pc' = "constructed"
  /\ UNCHANGED <<inp, hist, call>>

Next == Construct

Spec == Init /\ [][Next]_vars

---------------------------------------------------------------------------
(* Specification: a loaded Dataset, one call of ConstructHistograms *)

\* the data of the loaded datasets: every row is a row of the sample
HistInputs ==
  {ConstructInput(cases, Len(cases), MaxRow, TRUE, FALSE) :
     cases \in UNION {[1..nf -> CasesA(SampleRows) \cup CasesC(SampleRows)] :
                        nf \in 1..HistFeatures}}

\* Construct, the rows pushed, FinishLoad
LoadedDataset(in, g) ==
  FinishLoad(PushRows(ConstructFrom(NewDataset(in.total_sample_cnt), in, g), in, g))

\* buffers of the caller before the call: every entry holds a value of its
\* own that no histogram entry can take
CallerBuffers(d) ==
  [hist_data |-> [k \in 1..(2 * Last(d.group_bin_boundaries)) |-> 0 - k],
   ordered_gradients |-> [k \in 1..d.num_data |-> 0 - k],
   ordered_hessians |-> [k \in 1..d.num_data |-> 0 - k]]

InitHist ==
  \E in \in HistInputs :
    \E g \in BundlerResults(in) :
      /\ inp = in
      /\ bundle = g
      /\ ds = LoadedDataset(in, g)
      /\ pc = "loaded"
      /\ hist = CallerBuffers(LoadedDataset(in, g))
      /\ call = NoCall

\* a call on a leaf with a buffer, one with no leaf, one with no buffer
CallGuards ==
  {[leaf_idx |-> 0, hist_data_null |-> FALSE],
   [leaf_idx |-> 0 - 1, hist_data_null |-> FALSE],
   [leaf_idx |-> 0, hist_data_null |-> TRUE]}

\* the arguments of the calls: any mask, num_data from -1 to the row count,
\* data_indices null or the last rows in decreasing order
HistogramCalls(d) ==
  {[is_feature_used |-> [k \in 1..d.num_features |-> k \in used],
    data_indices |-> IF indexed
                       THEN Ptr([k \in 1..Max2(num_data, 0) |-> d.num_data - k])
                     ELSE nullptr,
    num_data |-> num_data, leaf_idx |-> guard.leaf_idx,
    gradients |-> [k \in 1..d.num_data |-> k],
    hessians |-> [k \in 1..d.num_data |-> d.num_data + 2 - k],
    is_constant_hessian |-> is_constant_hessian,
    hist_data_null |-> guard.hist_data_null, num_threads |-> num_threads] :
     used \in SUBSET (1..d.num_features), indexed \in BOOLEAN,
     num_data \in (0 - 1)..d.num_data, guard \in CallGuards,
     is_constant_hessian \in BOOLEAN,
     num_threads \in 1..MaxThreads}

CallConstructHistograms ==
  /\ pc = "loaded"
  /\ \E a \in HistogramCalls(ds) :
       \E r \in ConstructHistograms(ds, a, hist) :
         /\ hist' = [hist_data |-> r.hist_data,
                     ordered_gradients |-> r.ordered_gradients,
                     ordered_hessians |-> r.ordered_hessians]
         /\ ds' = [ds EXCEPT !.hist_buf = r.hist_buf]
         /\ call' = [op |-> "ConstructHistograms", args |-> a, outcome |-> r.outcome]
  /\ pc' = "histograms"
  /\ UNCHANGED <<inp, bundle>>

NextHist == CallConstructHistograms

SpecHist == InitHist /\ [][NextHist]_vars

---------------------------------------------------------------------------
(* Specification: a loaded Dataset, one call of FixHistogram *)

\* datasets of one feature per group, with either kind of mapper
FixInputs ==
  {ConstructInput(cases, Len(cases), MaxRow, FALSE, FALSE) :
     cases \in UNION {[1..nf -> {Unsampled(MapperA), Unsampled(MapperC)}] :
                        nf \in 1..HistFeatures}}

InitFix ==
  \E in \in FixInputs :
    \E g \in BundlerResults(in) :
      /\ inp = in
      /\ bundle = g
      /\ ds = LoadedDataset(in, g)
      /\ pc = "loaded"
      /\ hist = CallerBuffers(LoadedDataset(in, g))
      /\ call = NoCall

\* the histogram of an inner feature: num_bin pairs of small whole numbers
FeatureHistograms(d, feature_idx) ==
  LET group == At(d.feature2group, feature_idx)
      sub_feature == At(d.feature2subfeature, feature_idx)
      bin_mapper == At(At(d.feature_groups, group).bin_mappers, sub_feature)
  IN [1..(2 * bin_mapper.num_bin) -> 0..MaxHistValue]

CallFixHistogram ==
  /\ pc = "loaded"
  /\ \E feature_idx \in 0..(ds.num_features - 1) :
       \E sum_gradient \in 0..MaxHistValue, sum_hessian \in 0..MaxHistValue :
         \E data \in FeatureHistograms(ds, feature_idx) :
           call' = [op |-> "FixHistogram", feature_idx |-> feature_idx,
                    sum_gradient |-> sum_gradient, sum_hessian |-> sum_hessian,
                    data_in |-> data,
                    data |-> FixHistogram(ds, feature_idx, sum_gradient,
                                          sum_hessian, data)]
  /\ pc' = "fixed"
  /\ UNCHANGED <<inp, ds, bundle, hist>>

NextFix == CallFixHistogram

SpecFix == InitFix /\ [][NextFix]_vars

---------------------------------------------------------------------------
(* Specification: Construct, then CreateValid, CopyFeatureMapperFrom and    *)
(* addFeaturesFrom in any order                                            *)

\* which of the optional per-feature vectors the configuration supplies
OptionalChoices == [monotone : BOOLEAN, penalty : BOOLEAN, max_bin : BOOLEAN]

\* monotone constraints 1, -1, -1, ..., contributions 2, max bins 5, 6, ...
WithOptional(in, o) ==
  [in EXCEPT
     !.monotone_constraints =
        IF o.monotone THEN [k \in 1..Len(in.bin_mappers) |-> IF k = 1 THEN 1 ELSE 0 - 1]
        ELSE <<>>,
     !.feature_contri =
        IF o.penalty THEN [k \in 1..Len(in.bin_mappers) |-> 2] ELSE <<>>,
     !.max_bin_by_feature =
        IF o.max_bin THEN [k \in 1..Len(in.bin_mappers) |-> 4 + k] ELSE <<>>]

\* unbundled datasets with trivial features and any choice of optional
\* vectors, and bundled ones of two features
AddInputs ==
  {WithOptional(ConstructInput(cases, Len(cases), MaxRow, FALSE, FALSE), o) :
     cases \in UNION {[1..nf -> {Unsampled(TrivialMapper), Unsampled(MapperA),
                                 Unsampled(MapperB)}] : nf \in 1..MaxAddFeatures},
     o \in OptionalChoices}
  \cup {ConstructInput(cases, Len(cases), MaxRow, TRUE, FALSE) :
          cases \in [1..2 -> {[bm |-> MapperA, rows |-> {0}, val |-> 1],
                              [bm |-> MapperA, rows |-> {1}, val |-> 1],
                              [bm |-> MapperB, rows |-> SampleRows, val |-> 2]}]}

\* the datasets that can be passed as `other`: constructed ones of the same
\* row count, and one of a different row count
OtherDatasets ==
  UNION {{ConstructFrom(NewDataset(in.total_sample_cnt), in, g) :
            g \in BundlerResults(in)} : in \in AddInputs}
  \cup {ConstructFrom(NewDataset(MaxRow + 1),
                      ConstructInput(<<Unsampled(MapperA)>>, 1, MaxRow, FALSE, FALSE),
                      [features_in_group |-> <<<<0>>>>, multi_val_group |-> <<FALSE>>])}

InitAdd ==
  \E in \in AddInputs :
    /\ inp = in
    /\ ds = NewDataset(in.total_sample_cnt)
    /\ pc = "new"
    /\ bundle = NoBundle
    /\ hist = NoBuffers
    /\ call = NoCall

\* a fresh validation dataset of some row count takes the schema of ds
CallCreateValid ==
  /\ pc = "constructed"
  /\ \E num_data \in 1..MaxRow :
       ds' = CreateValid(NewDataset(num_data), ds)
  /\ call' = [op |-> "CreateValid", before |-> ds]
  /\ UNCHANGED <<pc, inp, bundle, hist>>

\* a fresh dataset of some row count takes the schema of ds
CallCopyFeatureMapperFrom ==
  /\ pc = "constructed"
  /\ \E num_data \in 1..MaxRow :
       ds' = CopyFeatureMapperFrom(NewDataset(num_data), ds)
  /\ call' = [op |-> "CopyFeatureMapperFrom", before |-> ds]
  /\ UNCHANGED <<pc, inp, bundle, hist>>

CallAddFeaturesFrom ==
  /\ pc = "constructed"
  /\ \E other \in OtherDatasets :
       /\ ds.num_total_features + other.num_total_features <= MaxAddedTotal
       /\ IF other.num_data # ds.num_data
            THEN /\ ds' = ds
                 /\ call' = [op |-> "addFeaturesFrom", before |-> ds, other |-> other,
                             outcome |-> "throws"]
            ELSE /\ ds' = addFeaturesFrom(ds, other)
                 /\ call' = [op |-> "addFeaturesFrom", before |-> ds, other |-> other,
                             outcome |-> "returned"]
  /\ UNCHANGED <<pc, inp, bundle, hist>>

NextAdd ==
  \/ Construct
  \/ CallCreateValid
  \/ CallCopyFeatureMapperFrom
  \/ CallAddFeaturesFrom

SpecAdd == InitAdd /\ [][NextAdd]_vars

---------------------------------------------------------------------------
(* Specification: Construct, then any number of ResetConfig calls *)

\* configured vectors for n real features: none, or one entry per feature;
\* a contribution may be negative
MonotoneChoices(n) == {<<>>} \cup [1..n -> {0, 1}]

ContriChoices(n) == {<<>>} \cup [1..n -> {0 - 1, 1}]

\* Construct is given its vectors with one entry per real feature
ResetInputs ==
  UNION {{[ConstructInput(cases, nf, MaxRow, FALSE, FALSE) EXCEPT
             !.monotone_constraints = m, !.feature_contri = c] :
            cases \in [1..nf -> {Unsampled(TrivialMapper), Unsampled(MapperA)}],
            m \in MonotoneChoices(nf),
            c \in {<<>>, [k \in 1..nf |-> 1], [k \in 1..nf |-> 2]}} :
           nf \in 1..MaxResetFeatures}

InitReset ==
  \E in \in ResetInputs :
    /\ inp = in
    /\ ds = NewDataset(in.total_sample_cnt)
    /\ pc = "new"
    /\ bundle = NoBundle
    /\ hist = NoBuffers
    /\ call = NoCall

\* the parameters hold vectors with one entry per real feature, or a vector
\* with one entry too many
CallResetConfig ==
  /\ pc = "constructed"
  /\ \E m \in MonotoneChoices(ds.num_total_features)
             \cup {[k \in 1..(ds.num_total_features + 1) |-> 1]},
        c \in ContriChoices(ds.num_total_features)
             \cup {[k \in 1..(ds.num_total_features + 1) |-> 2]} :
       /\ ds' = ResetConfig(ds, m, c)
       /\ call' = [op |-> "ResetConfig", before |-> ds,
                   monotone_constraints |-> m, feature_contri |-> c,
                   outcome |-> IF ResetConfigFails(ds, m, c) THEN "fatal" ELSE "returned"]
  /\ UNCHANGED <<pc, inp, bundle, hist>>

NextReset ==
  \/ Construct
  \/ CallResetConfig

SpecReset == InitReset /\ [][NextReset]_vars

---------------------------------------------------------------------------
(* Specification: a constructed and named Dataset, calls of SaveBinaryFile *)

\* datasets with trivial features, bundled groups, any choice of optional
\* vectors, and forced bins for no feature or k bounds for the k-th feature
SaveInputs ==
  {[in EXCEPT !.forced_bins = [k \in 1..Len(in.bin_mappers) |-> [j \in 1..(k * b) |-> j]]] :
     in \in {i \in AddInputs : Len(i.bin_mappers) <= MaxSaveFeatures}, b \in 0..1}

\* names of no character up to one character per feature index, or of two
FeatureNames(n) ==
  {[k \in 1..n |-> [j \in 1..(k - 1) |-> "f"]], [k \in 1..n |-> <<"f", "g">>]}

\* the dataset as constructed and named, or with the features of a copy of
\* itself added to it
SavedDatasets(in) ==
  UNION {{set_feature_names(ConstructFrom(NewDataset(in.total_sample_cnt), in, g), names) :
            names \in FeatureNames(Len(in.bin_mappers))} : g \in BundlerResults(in)}

InitSave ==
  \E in \in SaveInputs :
    \E d \in SavedDatasets(in) :
      /\ inp = in
      /\ ds \in {d, addFeaturesFrom(d, d)}
      /\ pc = "constructed"
      /\ bundle = NoBundle
      /\ hist = NoBuffers
      /\ call = NoCall

\* no name, the empty name, the name of the data file, or another name
BinFilenames == {nullptr, Ptr(""), Ptr("noname"), Ptr("out.bin")}

CallSaveBinaryFile ==
  /\ pc = "constructed"
  /\ \E bin_filename \in BinFilenames, files \in SUBSET {"noname.bin", "out.bin"},
        writer_ok \in BOOLEAN :
       \E r \in {SaveBinaryFile(ds, bin_filename, files, writer_ok)} :
         /\ ds' = r.d
         /\ call' = [op |-> "SaveBinaryFile", before |-> ds, result |-> r]
  /\ UNCHANGED <<pc, inp, bundle, hist>>

NextSave == CallSaveBinaryFile

SpecSave == InitSave /\ [][NextSave]_vars

---------------------------------------------------------------------------
(* Specification: a Dataset whose rows were pushed, or a subset receiver,  *)
(* and calls of FinishLoad and CopySubset in any order                     *)

\* the receiver of a subset: a fresh dataset of num_data rows with the schema
\* of the full dataset
SubsetReceiver(fullset, num_data) == CopyFeatureMapperFrom(NewDataset(num_data), fullset)

InitLoad ==
  \E in \in HistInputs :
    \E g \in BundlerResults(in) :
      /\ inp = in
      /\ bundle = g
      /\ ds \in {PushRows(ConstructFrom(NewDataset(in.total_sample_cnt), in, g), in, g)}
                  \cup {SubsetReceiver(LoadedDataset(in, g), n) : n \in 1..MaxRow}
      /\ pc = "pushed"
      /\ hist = NoBuffers
      /\ call = NoCall

CallFinishLoad ==
  /\ pc = "pushed"
  /\ ds' = FinishLoad(ds)
  /\ call' = [op |-> "FinishLoad", before |-> ds]
  /\ UNCHANGED <<pc, inp, bundle, hist>>

\* the full dataset is the loaded dataset of the same input; the indices are
\* any rows of it, one per row of the receiver or one too many
CallCopySubset ==
  /\ pc = "pushed"
  /\ \E num_used_indices \in {ds.num_data, ds.num_data + 1} :
       \E used_indices \in [1..num_used_indices -> 0..(inp.total_sample_cnt - 1)] :
         IF num_used_indices # ds.num_data
           THEN /\ ds' = ds
                /\ call' = [op |-> "CopySubset", before |-> ds, outcome |-> "fatal"]
           ELSE /\ ds' = CopySubset(ds, LoadedDataset(inp, bundle), used_indices,
                                    num_used_indices)
                /\ call' = [op |-> "CopySubset", before |-> ds, outcome |-> "returned"]
  /\ UNCHANGED <<pc, inp, bundle, hist>>

NextLoad ==
  \/ CallFinishLoad
  \/ CallCopySubset

SpecLoad == InitLoad /\ [][NextLoad]_vars

---------------------------------------------------------------------------
(* Specification: one call of FindGroups, the second round one feature at a *)
(* time                                                                    *)

\* a mapper of 2^13 bins, half of what a multi-val group may hold
MapperM == BinMapper(max_bin_per_multi_val_group \div 2, 0, 0, <<1, 1>>)

\* three features that collide in row 0, the first or the last a large one
LargeBinInputs ==
  {ConstructInput(cases, 3, MaxRow, TRUE, gpu) :
     cases \in {<<[bm |-> MapperM, rows |-> {0}, val |-> 1],
                  [bm |-> MapperA, rows |-> {0}, val |-> 1],
                  [bm |-> MapperA, rows |-> p, val |-> 1]>> : p \in RowPatterns(SampleRows)}
               \cup {<<[bm |-> MapperA, rows |-> {0}, val |-> 1],
                       [bm |-> MapperA, rows |-> {0}, val |-> 1],
                       [bm |-> MapperM, rows |-> p, val |-> 1]>> : p \in RowPatterns(SampleRows)},
     gpu \in BOOLEAN}

\* an empty sample
EmptySampleInputs ==
  {ConstructInput(cases, Len(cases), 0, TRUE, FALSE) :
     cases \in UNION {[1..nf -> {Unsampled(MapperA), Unsampled(MapperB)}] :
                        nf \in 1..MaxFeatures}}

\* a sample of MaxRow + 1 rows: a group of two rows is dense enough to be
\* kept, and a feature of one row still fits beside it
DenseSampleInputs ==
  {ConstructInput(cases, Len(cases) - filtered, MaxRow + 1, TRUE, FALSE) :
     cases \in [1..MaxFeatures ->
                  {[bm |-> MapperA, rows |-> p, val |-> 1] :
                     p \in {{}, {0}, {MaxRow}, 0..(MaxRow - 1), 0..MaxRow}}],
     filtered \in 0..1}

FindInputs ==
  {in \in ConstructInputs : in.enable_bundle /\ UsedFeatures(in.bin_mappers) # <<>>}
    \cup LargeBinInputs \cup EmptySampleInputs \cup DenseSampleInputs

\* the two calls FastFeatureBundling makes: the fixed views, and the features
\* in their own order or by decreasing count
FindGroupsCalls(in) ==
  LET Calls(used_features, cx) ==
        {[cx |-> cx, find_order |-> used_features],
         [cx |-> cx,
          find_order |-> feature_order_by_cnt(in.num_per_col, in.num_sample_col,
                                              used_features)]}
      Bundled(used_features) ==
        Calls(used_features,
              BundlingChoice(in.bin_mappers, in.sample_indices, in.sample_values,
                             in.num_per_col, in.num_sample_col, in.total_sample_cnt,
                             used_features, in.is_use_gpu).cx)
  IN Bundled(UsedFeatures(in.bin_mappers))

InitFind ==
  \E in \in FindInputs :
    \E c \in FindGroupsCalls(in) :
      /\ inp = in
      /\ ds = NewDataset(Max2(1, in.total_sample_cnt))
      /\ pc = "find"
      /\ bundle = [cx |-> c.cx, find_order |-> c.find_order, first |-> EmptyGroups,
                   st |-> EmptyGroups, features |-> <<>>, k |-> 1, processed |-> <<>>]
      /\ hist = NoBuffers
      /\ call = NoCall

\* the first round and the split of its groups into kept and dissolved ones
FindFirstRound ==
  /\ pc = "find"
  /\ \E first \in {FirstRound(bundle.cx, EmptyGroups, bundle.find_order, 1)} :
       bundle' = [bundle EXCEPT
                    !.first = first,
                    !.st = SecondRoundInit(bundle.cx, first),
                    !.features = second_round_features(bundle.cx, first)]
  /\ pc' = "second"
  /\ call' = [op |-> "first_round"]
  /\ UNCHANGED <<inp, ds, hist>>

\* one iteration of the second round: the candidates, the search, and the
\* feature added to the best group or to a new one
FindSecondRoundStep ==
  /\ pc = "second"
  /\ bundle.k <= Len(bundle.features)
  /\ \E fidx \in {bundle.features[bundle.k]} :
       \E available_groups \in {SecondRoundAvailable(bundle.cx, bundle.st, fidx)} :
         /\ bundle' = [bundle EXCEPT
                         !.st = SecondRoundStep(bundle.cx, bundle.st, fidx),
                         !.k = @ + 1,
                         !.processed = Append(@, fidx)]
         /\ call' = [op |-> "second_round", fidx |-> fidx, before |-> bundle.st,
                     available_groups |-> available_groups,
                     iterations |->
                        SecondRoundIterations(bundle.cx, bundle.st, fidx,
                                              SearchGroups(available_groups), 1,
                                              0 - 1, bundle.cx.total_sample_cnt + 1)]
  /\ UNCHANGED <<pc, inp, ds, hist>>

FindReturn ==
  /\ pc = "second"
  /\ bundle.k > Len(bundle.features)
  /\ pc' = "returned"
  /\ call' = [op |-> "FindGroups", features_in_group |-> bundle.st.features_in_group,
              multi_val_group |-> bundle.st.multi_val_group]
  /\ UNCHANGED <<inp, ds, bundle, hist>>

NextFind ==
  \/ FindFirstRound
  \/ FindSecondRoundStep
  \/ FindReturn

SpecFind == InitFind /\ [][NextFind]_vars

---------------------------------------------------------------------------
(* Specification: the chunk loop of one multi-valued group of              *)
(* ConstructHistograms, one chunk at a time                                *)

\* the thread counts: a few, and one above 2 + min_row_size
ChunkThreads == (1..MaxChunkThreads) \cup {ManyThreads}

\* the row counts: around the multiples of min_row_size, and one row more
\* than min_row_size rows per thread
ChunkRows ==
  {1, 2}
    \cup UNION {{k * min_row_size - 1, k * min_row_size, k * min_row_size + 1} :
                 k \in 1..(MaxChunkThreads + 1)}
    \cup {min_row_size * ManyThreads + 1}

InitChunks ==
  \E num_data \in ChunkRows, num_threads \in ChunkThreads :
    /\ inp = [num_data |-> num_data, num_threads |-> num_threads]
    /\ ds = NewDataset(num_data)
    /\ pc = "chunks"
    /\ bundle = [n_part |-> n_part_of(num_threads, num_data),
                 step |-> step_of(num_data, n_part_of(num_threads, num_data)),
                 chunks |-> <<>>]
    /\ hist = NoBuffers
    /\ call = NoCall

\* the iteration tid = Len(bundle.chunks) of the loop: its start and end
Chunk ==
  /\ pc = "chunks"
  /\ Len(bundle.chunks) < bundle.n_part
  /\ \E start \in {chunk_start(Len(bundle.chunks), bundle.step)} :
       /\ bundle' = [bundle EXCEPT !.chunks =
                       Append(@, [start |-> start,
                                  end |-> chunk_end(start, bundle.step, inp.num_data)])]
       /\ call' = [op |-> "chunk", tid |-> Len(bundle.chunks), start |-> start,
                   end |-> chunk_end(start, bundle.step, inp.num_data)]
  /\ UNCHANGED <<pc, inp, ds, hist>>

ChunksDone ==
  /\ pc = "chunks"
  /\ Len(bundle.chunks) >= bundle.n_part
  /\ pc' = "chunked"
  /\ UNCHANGED <<inp, ds, bundle, hist, call>>

NextChunks ==
  \/ Chunk
  \/ ChunksDone

SpecChunks == InitChunks /\ [][NextChunks]_vars

---------------------------------------------------------------------------
(* Specification: the merge of the chunk histograms of one multi-valued    *)
(* group, one block at a time in any order                                 *)

\* the bin counts of the merged group: the smallest ones, and those around
\* one and two blocks of min_block_size bins
MergeBinCounts ==
  {2, 3, min_block_size + 1, min_block_size + 2, min_block_size + 3,
   2 * min_block_size + 2}

\* a dataset whose last group is multi-valued with num_bin bins, after
\* `before` groups of three bins that are not
MergeDataset(before, num_bin) ==
  [NewDataset(1) EXCEPT
     !.is_finish_load = TRUE,
     !.num_groups = before + 1,
     !.num_features = before + 1,
     !.group_feature_start = [g \in 1..(before + 1) |-> g - 1],
     !.group_feature_cnt = [g \in 1..(before + 1) |-> 1],
     !.group_bin_boundaries = [g \in 1..(before + 2) |->
                                 IF g <= before + 1 THEN 3 * (g - 1)
                                 ELSE 3 * before + num_bin],
     !.feature_groups = [g \in 1..(before + 1) |->
                           [is_multi_val |-> g = before + 1,
                            num_total_bin |-> IF g = before + 1 THEN num_bin ELSE 3]]]

\* hist_buf_ after the chunk loop: chunk tid < n_part holds sums that differ
\* from chunk to chunk and from bin to bin, bin 0 included; the slots of the
\* threads that built no chunk hold what an earlier call left there
ChunkBuffers(num_bin, num_threads, n_part) ==
  [k \in 1..(2 * num_bin * num_threads) |->
     IF (k - 1) \div (2 * num_bin) < n_part
       THEN 1 + (k - 1) \div (2 * num_bin) + (k % 3)
     ELSE 100]

InitMerge ==
  \E num_bin \in MergeBinCounts, before \in 0..1, num_threads \in 1..MaxThreads :
    \E n_part \in 1..num_threads, is_constant_hessian \in BOOLEAN :
      /\ inp = [num_threads |-> num_threads, is_constant_hessian |-> is_constant_hessian,
                hessians |-> <<3>>]
      /\ ds = [MergeDataset(before, num_bin) EXCEPT
                 !.hist_buf = ChunkBuffers(num_bin, num_threads, n_part)]
      /\ pc = "chunks built"
      /\ bundle = [group |-> before, n_part |-> n_part, done |-> {}, blocks |-> <<>>]
      /\ hist = [CallerBuffers(MergeDataset(before, num_bin)) EXCEPT
                   !.hist_data = [k \in 1..Len(@) |-> IF k <= 6 * before THEN k ELSE @[k]]]
      /\ call = NoCall

\* std::memset of the slice of the group in hist_data
MergeZero ==
  /\ pc = "chunks built"
  /\ hist' = [hist EXCEPT !.hist_data =
                ZeroFill(@, HistOffset(ds, bundle.group),
                         2 * At(ds.feature_groups, bundle.group).num_total_bin)]
  /\ pc' = "merge"
  /\ call' = [op |-> "memset"]
  /\ UNCHANGED <<inp, ds, bundle>>

\* one iteration t of the parallel merge loop
MergeStep ==
  /\ pc = "merge"
  /\ \E t \in 0..(n_block_of(inp.num_threads,
                               At(ds.feature_groups, bundle.group).num_total_bin) - 1) :
       /\ t \notin bundle.done
       /\ hist' = [hist EXCEPT !.hist_data =
                     MergeBlock(ds, inp, @, ds.hist_buf, bundle.group, bundle.n_part, t)]
       /\ bundle' = [bundle EXCEPT !.done = @ \cup {t}]
       /\ call' = [op |-> "merge", t |-> t]
  /\ UNCHANGED <<pc, inp, ds>>

\* the end of the parallel loop: every iteration has run
MergeEnd ==
  /\ pc = "merge"
  /\ bundle.done = 0..(n_block_of(inp.num_threads,
                                   At(ds.feature_groups, bundle.group).num_total_bin) - 1)
  /\ pc' = "merged"
  /\ call' = [op |-> "merged"]
  /\ UNCHANGED <<inp, ds, bundle, hist>>

NextMerge ==
  \/ MergeZero
  \/ MergeStep
  \/ MergeEnd

SpecMerge == InitMerge /\ [][NextMerge]_vars

---------------------------------------------------------------------------
(* Specification: the parallel loops of one call of ConstructHistograms.   *)
(* The iterations of a loop run one at a time in any order, and a loop     *)
(* ends when all of them have run; the state keeps, for the loop that is   *)
(* running, the elements every finished iteration wrote and read.  The     *)
(* values written are those of ConstructHistograms above.                  *)

\* the groups of the datasets: one feature each, three bins, or as many
\* bins as make MaxThreads + 1 merge blocks
ParGroupKinds ==
  {[is_multi_val |-> FALSE, num_total_bin |-> 3],
   [is_multi_val |-> TRUE, num_total_bin |-> 3],
   [is_multi_val |-> TRUE, num_total_bin |-> MaxThreads * min_block_size + 2]}

ParDataset(num_data, groups) ==
  [NewDataset(num_data) EXCEPT
     !.is_finish_load = TRUE,
     !.num_groups = Len(groups),
     !.num_features = Len(groups),
     !.group_feature_start = [g \in 1..Len(groups) |-> g - 1],
     !.group_feature_cnt = [g \in 1..Len(groups) |-> 1],
     !.group_bin_boundaries =
        [g \in 1..(Len(groups) + 1) |->
           SumSeq([k \in 1..(g - 1) |-> groups[k].num_total_bin])],
     !.feature_groups = groups]

\* no row, two rows, and one row more than one and than MaxThreads chunks
ParRowCounts == {0, 2, min_row_size + 1, MaxThreads * min_row_size + 1}

ParDatasets ==
  {ParDataset(num_data, groups) :
     num_data \in ParRowCounts \ {0},
     groups \in UNION {[1..n -> ParGroupKinds] : n \in 1..2}}

\* the calls: all rows, or fewer rows through data_indices
ParCalls(d) ==
  {[is_feature_used |-> [k \in 1..d.num_features |-> k <= used],
    data_indices |-> IF num_data < d.num_data /\ num_data > 0
                       THEN Ptr([k \in 1..num_data |-> d.num_data - k])
                     ELSE nullptr,
    num_data |-> num_data, leaf_idx |-> 0,
    gradients |-> [k \in 1..d.num_data |-> 1],
    hessians |-> [k \in 1..d.num_data |-> 2],
    is_constant_hessian |-> is_constant_hessian,
    hist_data_null |-> FALSE, num_threads |-> num_threads] :
     used \in {1, d.num_features},
     num_data \in {n \in ParRowCounts : n = d.num_data \/ n <= 2},
     is_constant_hessian \in BOOLEAN,
     num_threads \in 1..(MaxThreads + 1)}

NoIterations == [ran |-> {}, gi |-> 0, built |-> {}]

InitPar ==
  \E d \in ParDatasets :
    \E a \in ParCalls(d) :
      /\ inp = a
      /\ ds = d
      /\ pc = "scatter"
      /\ bundle = NoIterations
      /\ hist = CallerBuffers(d)
      /\ call = NoCall

\* the iterations of the running loop that have finished
Ran == {x.iter : x \in bundle.ran}

\* the multi-valued group the call is working on
ParGroup == At(used_sparse_group(ds, inp.is_feature_used), bundle.gi)

\* one iteration of the loop that scatters the gradients of the subset
ParScatter ==
  /\ pc = "scatter"
  /\ UseSubset(ds, inp)
  /\ \E i \in 0..(inp.num_data - 1) :
       /\ i \notin Ran
       /\ bundle' = [bundle EXCEPT !.ran =
                       @ \cup {[iter |-> i, writes |-> ScatterWrites(inp, i), reads |-> {}]}]
       /\ call' = [op |-> "scatter", iter |-> i]
  /\ UNCHANGED <<pc, inp, ds, hist>>

\* the end of the scatter loop, or no subset to scatter
ParScatterEnd ==
  /\ pc = "scatter"
  /\ UseSubset(ds, inp) => Ran = 0..(inp.num_data - 1)
  /\ pc' = "dense"
  /\ bundle' = NoIterations
  /\ call' = [op |-> "scatter end"]
  /\ UNCHANGED <<inp, ds, hist>>

\* one iteration gi of the loop over the used dense groups
ParDense ==
  /\ pc = "dense"
  /\ \E gi \in 0..(Len(used_dense_group(ds, inp.is_feature_used)) - 1) :
       /\ gi \notin Ran
       /\ bundle' = [bundle EXCEPT !.ran =
                       @ \cup {[iter |-> gi,
                                writes |-> DenseWrites(ds, At(used_dense_group(ds, inp.is_feature_used), gi)),
                                reads |-> {}]}]
       /\ call' = [op |-> "dense", iter |-> gi]
  /\ UNCHANGED <<pc, inp, ds, hist>>

\* the work on multi-valued group gi starts: hist_buf_ is resized
StartSparse(gi) ==
  /\ pc' = "chunks"
  /\ bundle' = [NoIterations EXCEPT !.gi = gi]
  /\ ds' = [ds EXCEPT !.hist_buf =
              GrowHistBuf(ds, inp, At(used_sparse_group(ds, inp.is_feature_used), gi))]

\* the end of the loop over the dense groups
ParDenseEnd ==
  /\ pc = "dense"
  /\ Ran = 0..(Len(used_dense_group(ds, inp.is_feature_used)) - 1)
  /\ IF used_sparse_group(ds, inp.is_feature_used) = <<>>
       THEN pc' = "returned" /\ bundle' = NoIterations /\ ds' = ds
     ELSE StartSparse(0)
  /\ call' = [op |-> "dense end"]
  /\ UNCHANGED <<inp, hist>>

\* step = (num_data + n_part - 1) / n_part with n_part = 0: the division traps
ParTrap ==
  /\ pc = "chunks"
  /\ n_part_of(inp.num_threads, inp.num_data) = 0
  /\ pc' = "trap"
  /\ call' = [op |-> "trap"]
  /\ UNCHANGED <<inp, ds, bundle, hist>>

\* one iteration tid of the chunk loop
ParChunk ==
  /\ pc = "chunks"
  /\ \E tid \in 0..(n_part_of(inp.num_threads, inp.num_data) - 1) :
       /\ tid \notin Ran
       /\ bundle' = [bundle EXCEPT !.ran =
                       @ \cup {[iter |-> tid, writes |-> ChunkWrites(ds, ParGroup, tid),
                                reads |-> {}]}]
       /\ call' = [op |-> "chunk", iter |-> tid]
  /\ UNCHANGED <<pc, inp, ds, hist>>

\* the end of the chunk loop; the slice of the group is zeroed before the
\* merge loop starts
ParChunkEnd ==
  /\ pc = "chunks"
  /\ Ran = 0..(n_part_of(inp.num_threads, inp.num_data) - 1)
  /\ pc' = "merge"
  /\ bundle' = [bundle EXCEPT !.ran = {}, !.built = Ran]
  /\ call' = [op |-> "chunk end"]
  /\ UNCHANGED <<inp, ds, hist>>

\* one iteration t of the merge loop
ParMerge ==
  /\ pc = "merge"
  /\ \E t \in 0..(n_block_of(inp.num_threads,
                               At(ds.feature_groups, ParGroup).num_total_bin) - 1) :
       /\ t \notin Ran
       /\ bundle' = [bundle EXCEPT !.ran =
                       @ \cup {[iter |-> t, writes |-> MergeWrites(ds, inp, ParGroup, t),
                                reads |-> MergeReads(ds, inp, ParGroup,
                                                     n_part_of(inp.num_threads, inp.num_data),
                                                     t)]}]
       /\ call' = [op |-> "merge", iter |-> t]
  /\ UNCHANGED <<pc, inp, ds, hist>>

\* the end of the merge loop: the next multi-valued group, or the return
ParMergeEnd ==
  /\ pc = "merge"
  /\ Ran = 0..(n_block_of(inp.num_threads,
                           At(ds.feature_groups, ParGroup).num_total_bin) - 1)
  /\ IF bundle.gi + 1 >= Len(used_sparse_group(ds, inp.is_feature_used))
       THEN pc' = "returned" /\ bundle' = NoIterations /\ ds' = ds
     ELSE StartSparse(bundle.gi + 1)
  /\ call' = [op |-> "merge end"]
  /\ UNCHANGED <<inp, hist>>

NextPar ==
  \/ ParScatter
  \/ ParScatterEnd
  \/ ParDense
  \/ ParDenseEnd
  \/ ParTrap
  \/ ParChunk
  \/ ParChunkEnd
  \/ ParMerge
  \/ ParMergeEnd

SpecPar == InitPar /\ [][NextPar]_vars

---------------------------------------------------------------------------
(* Properties of Dataset::Construct and of the bundler *)

Constructed == pc = "constructed"

RealFeatures == 0..(ds.num_total_features - 1)

InnerFeatures == 0..(ds.num_features - 1)

Groups == 0..(ds.num_groups - 1)

IsUsedFeature(f) ==
  ~At(inp.bin_mappers, f).null /\ ~At(inp.bin_mappers, f).trivial

\* C1: after Construct, used_feature_map and real_feature_idx are mutually
\* inverse on the non-trivial features, and every null or trivial feature maps
\* to -1, whatever grouping the bundler returned.
C1_IndexMapsInverse ==
  Constructed =>
    /\ Len(ds.used_feature_map) = ds.num_total_features
    /\ Len(ds.real_feature_idx) = ds.num_features
    /\ \A f \in RealFeatures :
         IF IsUsedFeature(f)
           THEN /\ At(ds.used_feature_map, f) \in InnerFeatures
                /\ At(ds.real_feature_idx, At(ds.used_feature_map, f)) = f
           ELSE At(ds.used_feature_map, f) = -1
    /\ \A i \in InnerFeatures :
         /\ At(ds.real_feature_idx, i) \in RealFeatures
         /\ At(ds.used_feature_map, At(ds.real_feature_idx, i)) = i

\* a bundled dataset with an unused feature, a group of two features, and an
\* inner numbering that differs from the real one
C1_Witness ==
  /\ Constructed /\ bundle.bundled
  /\ \E f \in RealFeatures : ~IsUsedFeature(f)
  /\ \E g \in 1..Len(bundle.features_in_group) : Len(bundle.features_in_group[g]) >= 2
  /\ \E f \in RealFeatures : IsUsedFeature(f) /\ At(ds.used_feature_map, f) # f

\* C2: after Construct, group_bin_boundaries has num_groups + 1 entries, starts
\* at 0, grows by num_total_bin of each group, is strictly increasing, and ends
\* at the sum of num_total_bin over all groups.
C2_BinBoundaries ==
  Constructed =>
    /\ Len(ds.group_bin_boundaries) = ds.num_groups + 1
    /\ Len(ds.feature_groups) = ds.num_groups
    /\ At(ds.group_bin_boundaries, 0) = 0
    /\ \A g \in Groups :
         /\ At(ds.group_bin_boundaries, g + 1) - At(ds.group_bin_boundaries, g)
              = At(ds.feature_groups, g).num_total_bin
         /\ At(ds.group_bin_boundaries, g) < At(ds.group_bin_boundaries, g + 1)
    /\ At(ds.group_bin_boundaries, ds.num_groups)
         = SumSeq([k \in 1..ds.num_groups |-> ds.feature_groups[k].num_total_bin])

\* several groups, one of them multi-valued
C2_Witness ==
  /\ Constructed /\ ds.num_groups >= 2
  /\ \E g \in Groups : At(ds.feature_groups, g).is_multi_val

\* C3: after Construct with at least one non-trivial feature, feature2group is
\* non-decreasing, group_feature_cnt counts the inner features of each group,
\* and group_feature_start / group_feature_cnt describe adjacent ranges that
\* start at 0 and end at num_features.
C3_GroupRanges ==
  (Constructed /\ \E f \in RealFeatures : IsUsedFeature(f)) =>
    /\ Len(ds.feature2group) = ds.num_features
    /\ Len(ds.group_feature_start) = ds.num_groups
    /\ Len(ds.group_feature_cnt) = ds.num_groups
    /\ \A i \in InnerFeatures : \A j \in InnerFeatures :
         i <= j => At(ds.feature2group, i) <= At(ds.feature2group, j)
    /\ \A g \in Groups :
         At(ds.group_feature_cnt, g)
           = Cardinality({i \in InnerFeatures : At(ds.feature2group, i) = g})
    /\ At(ds.group_feature_start, 0) = 0
    /\ \A g \in Groups :
         At(ds.group_feature_start, g) + At(ds.group_feature_cnt, g)
           = IF g < ds.num_groups - 1 THEN At(ds.group_feature_start, g + 1)
             ELSE ds.num_features

\* two groups, the first of which holds two features
C3_Witness ==
  /\ Constructed /\ ds.num_groups >= 2
  /\ At(ds.group_feature_cnt, 0) >= 2

\* how often feature f occurs in the returned grouping
Occurrences(f) ==
  Cardinality({<<g, j>> \in (1..Len(bundle.features_in_group)) \X (1..MaxFeatures + 1) :
                 j <= Len(bundle.features_in_group[g])
                 /\ bundle.features_in_group[g][j] = f})

\* C4: the grouping the bundler returns is a partition of used_features into
\* non-empty groups, so there are at most |used_features| groups; NoGroup
\* returns exactly |used_features| groups, group i holding used_features[i].
C4_Partition ==
  Constructed =>
    /\ \A f \in RealFeatures :
         Occurrences(f) = IF f \in Range(bundle.used_features) THEN 1 ELSE 0
    /\ \A g \in 1..Len(bundle.features_in_group) :
         /\ bundle.features_in_group[g] # <<>>
         /\ Range(bundle.features_in_group[g]) \subseteq Range(bundle.used_features)
    /\ Len(bundle.features_in_group) <= Len(bundle.used_features)
    /\ Len(bundle.multi_val_group) = Len(bundle.features_in_group)
    /\ ~bundle.bundled =>
         /\ Len(bundle.features_in_group) = Len(bundle.used_features)
         /\ \A i \in 1..Len(bundle.used_features) :
              bundle.features_in_group[i] = <<bundle.used_features[i]>>

\* FastFeatureBundling merged three used features into fewer groups
C4_Witness ==
  /\ Constructed /\ bundle.bundled
  /\ Len(bundle.used_features) >= 3
  /\ Len(bundle.features_in_group) < Len(bundle.used_features)
  /\ Len(bundle.features_in_group) >= 2

\* the sample rows FindGroups saw as non-zero for feature f
SeenRows(f) ==
  IF f >= inp.num_sample_col THEN {}
  ELSE LET n == At(bundle.chosen.num_per_col, f)
       IN {At(bundle.chosen.sample_indices, f)[k] : k \in 1..n}

ConflictBudget == inp.total_sample_cnt \div conflict_divisor

\* the rows that are non-zero for more than one feature of the group
ConflictRows(features) ==
  {r \in UNION {SeenRows(f) : f \in Range(features)} :
     Cardinality({f \in Range(features) : r \in SeenRows(f)}) > 1}

\* C5: in the output of FindGroups / FastFeatureBundling, every group that is
\* not flagged multi-valued has at most single_val_max_conflict_cnt rows that
\* are non-zero for more than one of its features, and its total_data_cnt
\* exceeds its used_row_cnt by at most single_val_max_conflict_cnt.
C5_SingleValConflicts ==
  (Constructed /\ bundle.bundled) =>
    /\ \A g \in 1..Len(bundle.features_in_group) :
         ~bundle.multi_val_group[g] =>
           Cardinality(ConflictRows(bundle.features_in_group[g])) <= ConflictBudget
    /\ \A g \in 1..Len(bundle.chosen.features_in_group) :
         ~bundle.chosen.multi_val_group[g] =>
           /\ bundle.chosen.group_total_data_cnt[g] - bundle.chosen.group_used_row_cnt[g]
                <= ConflictBudget
           /\ bundle.chosen.group_total_data_cnt[g]
                = SumSeq([j \in 1..Len(bundle.chosen.features_in_group[g]) |->
                            Cardinality(SeenRows(bundle.chosen.features_in_group[g][j]))])
           /\ bundle.chosen.group_used_row_cnt[g]
                = Cardinality(UNION {SeenRows(f) :
                                       f \in Range(bundle.chosen.features_in_group[g])})

\* a single-valued group that uses its conflict budget, next to the case of a
\* group that was flagged multi-valued
C5_Witness ==
  /\ Constructed /\ bundle.bundled
  /\ ConflictBudget >= 1
  /\ \E g \in 1..Len(bundle.features_in_group) :
       /\ ~bundle.multi_val_group[g]
       /\ Cardinality(ConflictRows(bundle.features_in_group[g])) = ConflictBudget

\* C9: for every input to Construct, the case of no non-trivial feature
\* included, group_feature_start and group_feature_cnt each have exactly
\* num_groups entries after Construct.
C9_RangeVectorLengths ==
  Constructed =>
    /\ Len(ds.group_feature_start) = ds.num_groups
    /\ Len(ds.group_feature_cnt) = ds.num_groups

---------------------------------------------------------------------------
(* Properties of Dataset::FixHistogram *)

FixCalled == call.op = "FixHistogram"

\* the mapper of the feature whose histogram was fixed
FixedMapper ==
  At(At(ds.feature_groups, At(ds.feature2group, call.feature_idx)).bin_mappers,
     At(ds.feature2subfeature, call.feature_idx))

SumOfGradients(data, num_bin) == SumSeq([i \in 1..num_bin |-> data[GradAt(0, i - 1)]])

SumOfHessians(data, num_bin) == SumSeq([i \in 1..num_bin |-> data[HessAt(0, i - 1)]])

SumsRestored ==
  /\ SumOfGradients(call.data, FixedMapper.num_bin) = call.sum_gradient
  /\ SumOfHessians(call.data, FixedMapper.num_bin) = call.sum_hessian

---------------------------------------------------------------------------
(* Properties of Dataset::ConstructHistograms *)

HistogramsCalled == call.op = "ConstructHistograms"

\* the call returns at its first statement
EarlyReturn(a) == a.leaf_idx < 0 \/ a.num_data < 0 \/ a.hist_data_null

\* entry k (from 1) of hist_data lies in the slice of group g
InSlice(k, g) ==
  /\ k - 1 >= 2 * At(ds.group_bin_boundaries, g)
  /\ k - 1 < 2 * At(ds.group_bin_boundaries, g + 1)

UsedGroups(a) == {g \in Groups : IsGroupUsed(ds, a.is_feature_used, g)}

\* C8: a call of ConstructHistograms with num_data = 0, leaf_idx >= 0 and
\* hist_data not null completes normally, and the hist_data slice of every
\* used group, dense or multi-valued, is all zeros afterwards.
C8_ZeroRowsComplete ==
  (HistogramsCalled /\ ~EarlyReturn(call.args) /\ call.args.num_data = 0) =>
    /\ call.outcome = "returned"
    /\ \A g \in UsedGroups(call.args) :
         \A k \in 1..Len(hist.hist_data) : InSlice(k, g) => hist.hist_data[k] = 0

\* C10: ConstructHistograms changes entries of hist_data only inside the
\* slices [2*group_bin_boundaries[g], 2*group_bin_boundaries[g+1]) of the
\* groups g with a used inner feature, and a call with leaf_idx < 0,
\* num_data < 0 or hist_data null changes neither hist_data nor hist_buf_ nor
\* ordered_gradients nor ordered_hessians.
C10_Frame ==
  [][call'.op = "ConstructHistograms" =>
       /\ \A k \in 1..Len(hist.hist_data) :
            hist'.hist_data[k] # hist.hist_data[k] =>
              \E g \in UsedGroups(call'.args) : InSlice(k, g)
       /\ Len(hist'.hist_data) = Len(hist.hist_data)
       /\ EarlyReturn(call'.args) => (hist' = hist /\ ds'.hist_buf = ds.hist_buf)]_vars

\* a call that built the histogram of a used group next to an unused group
C10_Witness ==
  /\ HistogramsCalled /\ ~EarlyReturn(call.args)
  /\ call.outcome = "returned"
  /\ UsedGroups(call.args) # {}
  /\ Groups \ UsedGroups(call.args) # {}
  /\ \E k \in 1..Len(hist.hist_data) : hist.hist_data[k] > 0

---------------------------------------------------------------------------
(* Properties of Dataset::addFeaturesFrom, CreateValid, CopyFeatureMapperFrom *)

Added == call.op = "addFeaturesFrom" /\ call.outcome = "returned"

\* each optional vector is empty or has one entry per (inner or real) feature
OptionalFull(d) ==
  /\ Len(d.monotone_types) \in {0, d.num_features}
  /\ Len(d.feature_penalty) \in {0, d.num_features}
  /\ Len(d.max_bin_by_feature) \in {0, d.num_total_features}

\* the three-way rule for one vector: n and m are the feature counts of the
\* receiver and of other that the vector is indexed by
Concatenated(v, n, w, m, deflt) ==
  IF v = <<>> /\ w = <<>> THEN <<>>
  ELSE (IF v = <<>> THEN [i \in 1..n |-> deflt] ELSE v)
         \o (IF w = <<>> THEN [i \in 1..m |-> deflt] ELSE w)

\* C11: after addFeaturesFrom on datasets whose optional vectors are empty or
\* full-length, monotone_types and feature_penalty are empty or hold one entry
\* per inner feature of the combined dataset, max_bin_by_feature is empty or
\* holds one entry per real feature; a side that was empty holds the default
\* (0, 1.0, -1) at its positions and the other side's values stay at the
\* inner indices of their own features, also with trivial features present.
C11_OptionalVectorsAfterAdd ==
  (Added /\ OptionalFull(call.before) /\ OptionalFull(call.other)) =>
    /\ ds.monotone_types =
         Concatenated(call.before.monotone_types, call.before.num_features,
                      call.other.monotone_types, call.other.num_features, 0)
    /\ ds.feature_penalty =
         Concatenated(call.before.feature_penalty, call.before.num_features,
                      call.other.feature_penalty, call.other.num_features, 1)
    /\ ds.max_bin_by_feature =
         Concatenated(call.before.max_bin_by_feature, call.before.num_total_features,
                      call.other.max_bin_by_feature, call.other.num_total_features, 0 - 1)

\* the index-map invariants of a dataset
IndexMapsHold(d) ==
  /\ Len(d.used_feature_map) = d.num_total_features
  /\ Len(d.real_feature_idx) = d.num_features
  /\ \A i \in 0..(d.num_features - 1) :
       /\ At(d.real_feature_idx, i) \in 0..(d.num_total_features - 1)
       /\ At(d.used_feature_map, At(d.real_feature_idx, i)) = i
  /\ \A r \in 0..(d.num_total_features - 1) :
       At(d.used_feature_map, r) >= 0 =>
         /\ At(d.used_feature_map, r) < d.num_features
         /\ At(d.real_feature_idx, At(d.used_feature_map, r)) = r
  /\ Len(d.feature2group) = d.num_features
  /\ \A i \in 0..(d.num_features - 1) : At(d.feature2group, i) \in 0..(d.num_groups - 1)
  /\ \A i \in 1..(d.num_features - 1) :
       At(d.feature2group, i - 1) <= At(d.feature2group, i)
  /\ Len(d.group_feature_start) = d.num_groups
  /\ Len(d.group_feature_cnt) = d.num_groups
  /\ \A g \in 0..(d.num_groups - 1) :
       /\ At(d.group_feature_start, g) =
            (IF g = 0 THEN 0
             ELSE At(d.group_feature_start, g - 1) + At(d.group_feature_cnt, g - 1))
       /\ At(d.group_feature_cnt, g) >= 1
  /\ d.num_features =
       (IF d.num_groups = 0 THEN 0
        ELSE Last(d.group_feature_start) + Last(d.group_feature_cnt))
  /\ Len(d.group_bin_boundaries) = d.num_groups + 1
  /\ At(d.group_bin_boundaries, 0) = 0
  /\ \A g \in 0..(d.num_groups - 1) :
       At(d.group_bin_boundaries, g + 1) =
         At(d.group_bin_boundaries, g) + At(d.feature_groups, g).num_total_bin

\* C12: if the receiver and other satisfy the index-map invariants and have
\* equal row counts, then after addFeaturesFrom the receiver satisfies them
\* for the summed num_features, num_total_features and num_groups, and
\* other's features follow the receiver's in real and in inner index space.
C12_AddPreservesIndexMaps ==
  (Added /\ IndexMapsHold(call.before) /\ IndexMapsHold(call.other)) =>
    /\ IndexMapsHold(ds)
    /\ ds.num_features = call.before.num_features + call.other.num_features
    /\ ds.num_total_features =
         call.before.num_total_features + call.other.num_total_features
    /\ ds.num_groups = call.before.num_groups + call.other.num_groups
    /\ \A r \in 0..(call.before.num_total_features - 1) :
         At(ds.used_feature_map, r) = At(call.before.used_feature_map, r)
    /\ \A r \in 0..(call.other.num_total_features - 1) :
         At(ds.used_feature_map, call.before.num_total_features + r) =
           (IF At(call.other.used_feature_map, r) >= 0
              THEN call.before.num_features + At(call.other.used_feature_map, r)
              ELSE 0 - 1)
    /\ \A i \in 0..(call.other.num_features - 1) :
         At(ds.feature2group, call.before.num_features + i) =
           call.before.num_groups + At(call.other.feature2group, i)

\* a receiver with a trivial feature took a bundled group of two features
C12_Witness ==
  /\ Added /\ IndexMapsHold(call.before) /\ IndexMapsHold(call.other)
  /\ call.before.num_groups >= 1
  /\ call.other.num_features = 2 /\ call.other.num_groups = 1

\* C13: after any sequence of Construct, CreateValid, CopyFeatureMapperFrom
\* and addFeaturesFrom, feature_need_push_zeros holds exactly the inner
\* features of the dataset whose mapper has default_bin # most_freq_bin.
C13_NeedPushZerosExact ==
  Constructed =>
    /\ Range(ds.feature_need_push_zeros) =
         {i \in 0..(ds.num_features - 1) :
            GetDefaultBin(FeatureBinMapper(ds, i)) # GetMostFreqBin(FeatureBinMapper(ds, i))}
    /\ \A j, k \in 1..Len(ds.feature_need_push_zeros) :
         j # k => ds.feature_need_push_zeros[j] # ds.feature_need_push_zeros[k]

---------------------------------------------------------------------------
(* Properties of Dataset::ResetConfig *)

ResetDone == call.op = "ResetConfig" /\ call.outcome = "returned"

\* C14: after Construct and after any sequence of ResetConfig calls,
\* monotone_types is empty or has num_features entries with at least one
\* non-zero, and feature_penalty is empty or has num_features entries with at
\* least one different from 1.0; a ResetConfig that supplies all-zero monotone
\* constraints (all-1.0 contributions) leaves the vector empty.
C14_CompactedVectors ==
  Constructed =>
    /\ \/ ds.monotone_types = <<>>
       \/ /\ Len(ds.monotone_types) = ds.num_features
          /\ \E k \in 1..Len(ds.monotone_types) : ds.monotone_types[k] # 0
    /\ \/ ds.feature_penalty = <<>>
       \/ /\ Len(ds.feature_penalty) = ds.num_features
          /\ \E k \in 1..Len(ds.feature_penalty) : ds.feature_penalty[k] # 1
    /\ (/\ ResetDone
        /\ call.monotone_constraints # <<>>
        /\ \A k \in 1..Len(call.monotone_constraints) : call.monotone_constraints[k] = 0)
         => ds.monotone_types = <<>>
    /\ (/\ ResetDone
        /\ call.feature_contri # <<>>
        /\ \A k \in 1..Len(call.feature_contri) : call.feature_contri[k] = 1)
         => ds.feature_penalty = <<>>

\* a ResetConfig with all-zero constraints emptied a populated monotone_types
\* and left a populated feature_penalty in place
C14_Witness ==
  /\ ResetDone
  /\ call.before.monotone_types # <<>>
  /\ call.monotone_constraints # <<>>
  /\ \A k \in 1..Len(call.monotone_constraints) : call.monotone_constraints[k] = 0
  /\ ds.monotone_types = <<>>
  /\ ds.feature_penalty # <<>>
  /\ ds.num_total_features > ds.num_features

---------------------------------------------------------------------------
(* Properties of Dataset::SaveBinaryFile *)

SaveCalled == call.op = "SaveBinaryFile"

Saved == SaveCalled /\ call.result.outcome = "saved"

\* the position of the only write of a field
PositionOf(written, field) ==
  CHOOSE k \in 1..Len(written) : written[k].field = field

\* C15: the size_of_header that SaveBinaryFile writes after the token equals
\* the number of bytes written between the size_of_header field and the
\* size_of_metadata field, for every num_features, num_total_features,
\* num_groups, name length and forced-bin count.
C15_HeaderSizeExact ==
  Saved =>
    call.result.size_of_header =
      SumSeq([k \in 1..(PositionOf(call.result.written, "size_of_metadata")
                          - PositionOf(call.result.written, "size_of_header") - 1) |->
                call.result.written[PositionOf(call.result.written, "size_of_header") + k].bytes])

\* a saved dataset with a trivial feature, a bundled or an added group, names
\* of different lengths and forced bins
C15_Witness ==
  /\ Saved
  /\ ds.num_total_features > ds.num_features
  /\ ds.num_features >= 1
  /\ \E i, j \in 1..ds.num_total_features :
       Len(ds.feature_names[i]) # Len(ds.feature_names[j])
  /\ \E i \in 1..ds.num_total_features : Len(ds.forced_bin_bounds[i]) > 0

\* C16: SaveBinaryFile never changes the dataset: whether it writes the file
\* or refuses because the name is the data file's or the file exists (then
\* nothing is written), monotone_types, feature_penalty and
\* max_bin_by_feature are empty exactly when they were and hold the same
\* values otherwise, and every other field is unchanged.
C16_SaveKeepsState ==
  SaveCalled =>
    /\ ds = call.before
    /\ call.result.outcome \in {"same file", "file exists"} => call.result.written = <<>>

\* a save that wrote a dataset with no monotone constraints and with penalties
C16_Witness ==
  /\ Saved
  /\ ds.num_features >= 1
  /\ call.before.monotone_types = <<>>
  /\ call.before.feature_penalty # <<>>
  /\ call.before.max_bin_by_feature = <<>>

---------------------------------------------------------------------------
(* Properties of Dataset::FinishLoad and Dataset::CopySubset *)

FinishLoadCalls(d, g) == At(d.feature_groups, g).finish_load_calls

\* C17: over any sequence of FinishLoad and CopySubset calls, finish_load of
\* each group's storage is invoked at most once: a FinishLoad on a dataset
\* with is_finish_load false invokes it exactly once per group and sets
\* is_finish_load, a FinishLoad while is_finish_load is true (after a
\* FinishLoad or a CopySubset) invokes nothing and changes nothing.
C17_FinishLoadOnce ==
  [][/\ \A g \in 0..(ds'.num_groups - 1) : FinishLoadCalls(ds', g) <= 1
     /\ (call'.op = "FinishLoad" /\ ~ds.is_finish_load) =>
          /\ ds'.is_finish_load
          /\ \A g \in 0..(ds.num_groups - 1) :
               FinishLoadCalls(ds', g) = FinishLoadCalls(ds, g) + 1
     /\ (call'.op = "FinishLoad" /\ ds.is_finish_load) => ds' = ds
     /\ call'.op = "CopySubset" =>
          \A g \in 0..(ds.num_groups - 1) :
            FinishLoadCalls(ds', g) = FinishLoadCalls(ds, g)]_vars

\* a second FinishLoad on a dataset of two groups, each finished once
C17_Witness ==
  /\ call.op = "FinishLoad"
  /\ call.before.is_finish_load
  /\ ds.num_groups >= 2
  /\ \A g \in 0..(ds.num_groups - 1) : FinishLoadCalls(ds, g) = 1

---------------------------------------------------------------------------
(* Properties of FindGroups *)

FindReturned == pc = "returned" /\ call.op = "FindGroups"

IsPrefix(s, u) == Len(s) <= Len(u) /\ \A k \in 1..Len(s) : s[k] = u[k]

\* the dense rate used_row_cnt / S of group gid after the first round,
\* compared with 0.6 (the rate is not defined for S = 0)
RateAtLeast(gid) ==
  /\ bundle.cx.total_sample_cnt > 0
  /\ 10 * At(bundle.first.group_used_row_cnt, gid) >= 6 * bundle.cx.total_sample_cnt

RateBelow(gid) ==
  /\ bundle.cx.total_sample_cnt > 0
  /\ 10 * At(bundle.first.group_used_row_cnt, gid) < 6 * bundle.cx.total_sample_cnt

FirstRoundGroups == [g \in 1..Len(bundle.first.features_in_group) |-> g - 1]

\* C18: every first-round group with dense rate >= 0.6 appears in the
\* returned grouping with its first-round features as a prefix, in their
\* first-round order; every first-round group with dense rate < 0.6 is
\* dissolved and its features are re-assigned one by one in the second
\* round, in first-round group order and then member order.
C18_DenseGroupsKept ==
  FindReturned =>
    /\ \A gid \in Range(FirstRoundGroups) :
         RateAtLeast(gid) =>
           \E q \in 1..Len(call.features_in_group) :
             IsPrefix(At(bundle.first.features_in_group, gid), call.features_in_group[q])
    /\ bundle.cx.total_sample_cnt > 0 =>
         bundle.processed =
           Flatten([k \in 1..Len(SelectSeq(FirstRoundGroups, RateBelow)) |->
                      At(bundle.first.features_in_group,
                         SelectSeq(FirstRoundGroups, RateBelow)[k])])

\* a kept group took a feature of a dissolved group in the second round
C18_Witness ==
  /\ FindReturned
  /\ \E gid \in Range(FirstRoundGroups) : RateBelow(gid)
  /\ \E gid \in Range(FirstRoundGroups) :
       /\ RateAtLeast(gid)
       /\ \E q \in 1..Len(call.features_in_group) :
            /\ IsPrefix(At(bundle.first.features_in_group, gid), call.features_in_group[q])
            /\ Len(call.features_in_group[q]) > Len(At(bundle.first.features_in_group, gid))

SecondRoundStepped == call.op = "second_round"

\* num_bin(f) - (default_bin(f) == 0 ? 1 : 0)
BinIncrease(f) ==
  At(bundle.cx.bin_mappers, f).num_bin
    - (IF At(bundle.cx.bin_mappers, f).default_bin = 0 THEN 1 ELSE 0)

\* the number of non-zero sample rows of f; none for a feature beyond the
\* sampled columns
NonZeroCount(f) ==
  IF f >= bundle.cx.num_sample_col THEN 0 ELSE At(bundle.cx.num_per_col, f)

\* C19: in the second round a group g is a candidate for feature f exactly
\* when (if g is multi-valued) num_bin[g] + dbin(f) <= 2^14, and
\* total_data_cnt[g] + nz(f) <= S + single_val_max_conflict_cnt if g is
\* forced single-val, else <= 10*S, and, on the GPU, num_bin[g] + dbin(f) <= 256.
C19_SecondRoundCandidates ==
  SecondRoundStepped =>
    \A g \in 0..(Len(call.before.features_in_group) - 1) :
      (g \in Range(call.available_groups)) <=>
        /\ At(call.before.multi_val_group, g) =>
             At(call.before.group_num_bin, g) + BinIncrease(call.fidx) <= 16384
        /\ At(call.before.group_total_data_cnt, g) + NonZeroCount(call.fidx) <=
             (IF At(call.before.forced_single_val_group, g)
                THEN bundle.cx.total_sample_cnt + bundle.cx.total_sample_cnt \div 10000
                ELSE 10 * bundle.cx.total_sample_cnt)
        /\ bundle.cx.is_use_gpu =>
             At(call.before.group_num_bin, g) + BinIncrease(call.fidx) <= 256

\* C20: in the search loop of the second round the first searched group with
\* a non-negative conflict count becomes the current best, and
\* group_total_data_cnt[best_gid] is read only when best_gid >= 0 and the
\* count equals the best count; the loop never reads index -1.
C20_SearchNeverReadsBeforeBest ==
  SecondRoundStepped =>
    \A i \in 1..Len(call.iterations) :
      /\ call.iterations[i].reads_best_total =>
           /\ call.iterations[i].best_gid >= 0
           /\ call.iterations[i].cnt = call.iterations[i].best_conflict_cnt
      /\ (/\ call.iterations[i].cnt >= 0
          /\ \A j \in 1..(i - 1) : call.iterations[j].cnt < 0)
           => call.iterations[i].next_best_gid = call.iterations[i].gid

\* a search that skipped a group with too many conflicts, took the next one
\* as its first best, and compared the totals for a third with an equal count
C20_Witness ==
  /\ SecondRoundStepped
  /\ \E i \in 1..Len(call.iterations) : call.iterations[i].reads_best_total
  /\ \E i \in 1..Len(call.iterations) : call.iterations[i].cnt >= 0

---------------------------------------------------------------------------
(* Properties of FastFeatureBundling *)

SampledUsedFeatures ==
  {f \in Range(UsedFeatures(inp.bin_mappers)) : f < inp.num_sample_col}

\* r is a non-zero sample row of f whose value falls into the most frequent bin
InMostFreqBin(f, r) ==
  \E k \in 1..Len(At(inp.sample_indices, f)) :
    /\ At(inp.sample_indices, f)[k] = r
    /\ At(inp.bin_mappers, f).bin_of[At(inp.sample_values, f)[k]]
         = At(inp.bin_mappers, f).most_freq_bin

\* the rows of [0, S) absent from the sample list of f, plus the sampled rows
\* whose value does not bin to the most frequent bin, in increasing order
SynthesizedList(f) ==
  SelectSeq([k \in 1..inp.total_sample_cnt |-> k - 1],
            LAMBDA r : ~InMostFreqBin(f, r))

\* C21: for every sampled used feature with default_bin # most_freq_bin the
\* FindGroups runs use the synthesized index list and its length as the
\* non-zero count, also when the synthesized list is empty; the features with
\* default_bin = most_freq_bin keep their original list and count.
C21_FixedViewsUsed ==
  \A f \in SampledUsedFeatures :
    IF At(inp.bin_mappers, f).default_bin # At(inp.bin_mappers, f).most_freq_bin
      THEN /\ At(bundle.cx.sample_indices, f) = SynthesizedList(f)
           /\ At(bundle.cx.num_per_col, f) = Len(SynthesizedList(f))
      ELSE /\ At(bundle.cx.sample_indices, f) = At(inp.sample_indices, f)
           /\ At(bundle.cx.num_per_col, f) = At(inp.num_per_col, f)

\* C22: FastFeatureBundling leaves the caller's sample index views unchanged:
\* after it returns every entry sample_indices[f] of the caller's array refers
\* to the list it referred to before the call.
C22_CallerViewsUnchanged ==
  (pc = "constructed" /\ bundle.bundled) =>
    \A c \in 1..Len(inp.sample_indices) : bundle.chosen.points_to[c] = "caller"

Bundled == pc = "constructed" /\ bundle.bundled

\* C23: for any draws of the final shuffle the returned grouping is a
\* permutation of the chosen group list in which every group keeps its own
\* is_multi_val flag, the returned multi_val_group is as long as the returned
\* group list, and the chosen list is the result of the dense-first ordering
\* only when that has strictly fewer groups than the caller-order result.
C23_ShuffleKeepsFlags ==
  Bundled =>
    /\ Len(bundle.multi_val_group) = Len(bundle.features_in_group)
    /\ Len(bundle.features_in_group) = Len(bundle.chosen.features_in_group)
    /\ \E p \in Permutations(1..Len(bundle.chosen.features_in_group)) :
         \A k \in 1..Len(bundle.chosen.features_in_group) :
           /\ bundle.features_in_group[k] = bundle.chosen.features_in_group[p[k]]
           /\ bundle.multi_val_group[k] = bundle.chosen.multi_val_group[p[k]]
    /\ bundle.chosen.num_groups2 >= bundle.chosen.num_groups1 =>
         /\ bundle.chosen.features_in_group = bundle.chosen.features_in_group1
         /\ bundle.chosen.multi_val_group = bundle.chosen.multi_val_group1

\* the shuffle moved a multi-valued group past one that is not
C23_Witness ==
  /\ Bundled
  /\ bundle.features_in_group # bundle.chosen.features_in_group
  /\ \E k \in 1..Len(bundle.multi_val_group) : bundle.multi_val_group[k]
  /\ \E k \in 1..Len(bundle.multi_val_group) : ~bundle.multi_val_group[k]
  /\ bundle.multi_val_group # bundle.chosen.multi_val_group

---------------------------------------------------------------------------
(* Properties of the multi-valued path of ConstructHistograms *)

Chunked == pc = "chunked"

\* the chunks that hold row
ChunksOf(row) ==
  {t \in 1..Len(bundle.chunks) :
     bundle.chunks[t].start <= row /\ row < bundle.chunks[t].end}

\* C24 as stated: the chunks are contiguous, pairwise disjoint, each
\* satisfies start <= end, and together they cover [0, n) exactly.
C24_ChunksAsStated ==
  Chunked =>
    /\ bundle.chunks[1].start = 0
    /\ bundle.chunks[Len(bundle.chunks)].end = inp.num_data
    /\ \A t \in 1..Len(bundle.chunks) :
         /\ bundle.chunks[t].start <= bundle.chunks[t].end
         /\ t > 1 => bundle.chunks[t].start = bundle.chunks[t - 1].end

\* C24: with n >= 1 rows and num_threads >= 1 the chunks that start below n
\* are contiguous, pairwise disjoint, not empty, and cover [0, n) exactly, so
\* that every row is accumulated by exactly one chunk; a chunk that starts
\* at or after n ends at n and holds no row, and with at most min_row_size
\* threads every chunk satisfies start <= end.
C24_ChunksCoverRows ==
  Chunked =>
    /\ Len(bundle.chunks) = n_part_of(inp.num_threads, inp.num_data)
    /\ bundle.chunks[1].start = 0
    /\ bundle.chunks[Len(bundle.chunks)].end = inp.num_data
    /\ \A t \in 1..Len(bundle.chunks) :
         IF bundle.chunks[t].start < inp.num_data
           THEN /\ bundle.chunks[t].start < bundle.chunks[t].end
                /\ t > 1 => bundle.chunks[t].start = bundle.chunks[t - 1].end
           ELSE /\ bundle.chunks[t].end = inp.num_data
                /\ bundle.chunks[t - 1].end = inp.num_data
    /\ inp.num_data <= (MaxChunkThreads + 1) * min_row_size + 1 =>
         \A row \in 0..(inp.num_data - 1) : Cardinality(ChunksOf(row)) = 1
    /\ inp.num_threads <= min_row_size =>
         \A t \in 1..Len(bundle.chunks) : bundle.chunks[t].start <= bundle.chunks[t].end

\* several chunks, the last one shorter than the others
C24_Witness ==
  /\ Chunked
  /\ Len(bundle.chunks) >= 3
  /\ bundle.chunks[Len(bundle.chunks)].end - bundle.chunks[Len(bundle.chunks)].start
       < bundle.step
  /\ bundle.chunks[Len(bundle.chunks)].start < inp.num_data
  /\ \A row \in 0..(inp.num_data - 1) : Cardinality(ChunksOf(row)) = 1

Merged == pc = "merged"

MergedBins == At(ds.feature_groups, bundle.group).num_total_bin

\* the sum over the chunk buffers of entry `pos` (1 for the gradient of bin 0,
\* 2 for its hessian, ...) of the histogram of the group
ChunkSum(pos) ==
  SumSeq([tid \in 1..bundle.n_part |-> ds.hist_buf[(tid - 1) * 2 * MergedBins + pos]])

\* bin b lies in block t: [t * per + 1, min(t * per + 1 + per, num_bin))
InBlock(b, t) ==
  /\ b < MergedBins
  /\ b >= t * num_bin_per_threads_of(MergedBins, n_block_of(inp.num_threads, MergedBins)) + 1
  /\ b < (t + 1) * num_bin_per_threads_of(MergedBins, n_block_of(inp.num_threads, MergedBins)) + 1

\* C25: the bin blocks of the merge loop are pairwise disjoint and cover
\* exactly the bins [1, num_bin); after the merge every bin b >= 1 of the
\* slice of the group holds the sum over the n_part chunk buffers of that bin,
\* the hessian multiplied by hessians[0] when the hessian is constant, and
\* bin 0 is left as (0, 0).
C25_MergeSumsChunks ==
  Merged =>
    /\ \A b \in 1..(MergedBins - 1) :
         Cardinality({t \in bundle.done : InBlock(b, t)}) = 1
    /\ \A t \in bundle.done : ~InBlock(0, t)
    /\ \A b \in 1..(MergedBins - 1) :
         /\ hist.hist_data[HistOffset(ds, bundle.group) + 2 * b + 1] = ChunkSum(2 * b + 1)
         /\ hist.hist_data[HistOffset(ds, bundle.group) + 2 * b + 2]
              = ChunkSum(2 * b + 2) * (IF inp.is_constant_hessian THEN inp.hessians[1] ELSE 1)
    /\ hist.hist_data[HistOffset(ds, bundle.group) + 1] = 0
    /\ hist.hist_data[HistOffset(ds, bundle.group) + 2] = 0

\* two blocks merged two chunks with a constant hessian, after another group
C25_Witness ==
  /\ Merged
  /\ Cardinality(bundle.done) = 2
  /\ bundle.n_part = 2
  /\ inp.is_constant_hessian
  /\ bundle.group = 1
  /\ ChunkSum(1) > 0
  /\ hist.hist_data[HistOffset(ds, bundle.group) + 2 * (MergedBins - 1) + 2]
       = 3 * ChunkSum(2 * (MergedBins - 1) + 2)

---------------------------------------------------------------------------
(* Properties of the parallel loops of ConstructHistograms *)

BufferLen(buf) ==
  CASE buf = "hist_data" -> Len(hist.hist_data)
    [] buf = "hist_buf" -> Len(ds.hist_buf)
    [] buf = "ordered_gradients" -> Len(hist.ordered_gradients)
    [] buf = "ordered_hessians" -> Len(hist.ordered_hessians)

Overlap(v, w) == v.buf = w.buf /\ v.lo < w.hi /\ w.lo < v.hi

\* C26: within one call no two iterations of a parallel loop write the same
\* element and every write is in bounds: the dense-group iterations write
\* disjoint slices of hist_data, the scatter iterations distinct positions,
\* the chunk iterations disjoint slots [tid*2*num_bin, (tid+1)*2*num_bin) of
\* hist_buf_, which holds at least 2*num_bin*num_threads entries, the merge
\* iterations disjoint bin ranges of the slice of the group; and the chunks
\* of a group are all built before its merge reads hist_buf_.
C26_NoConflictingWrites ==
  /\ \A x \in bundle.ran : \A y \in bundle.ran :
       x.iter # y.iter =>
         /\ \A v \in x.writes : \A w \in y.writes : ~Overlap(v, w)
         /\ \A v \in x.writes : \A w \in y.reads : ~Overlap(v, w)
  /\ \A x \in bundle.ran : \A w \in x.writes \cup x.reads :
       0 <= w.lo /\ w.lo < w.hi /\ w.hi <= BufferLen(w.buf)
  /\ pc = "chunks" =>
       /\ Len(ds.hist_buf)
            >= 2 * At(ds.feature_groups, ParGroup).num_total_bin * inp.num_threads
       /\ \A x \in bundle.ran :
            x.writes = {[buf |-> "hist_buf",
                         lo |-> x.iter * 2 * At(ds.feature_groups, ParGroup).num_total_bin,
                         hi |-> (x.iter + 1) * 2 * At(ds.feature_groups, ParGroup).num_total_bin]}
  /\ pc = "merge" =>
       /\ bundle.built = 0..(n_part_of(inp.num_threads, inp.num_data) - 1)
       /\ \A x \in bundle.ran : \A w \in x.reads :
            \E tid \in bundle.built :
              /\ tid * 2 * At(ds.feature_groups, ParGroup).num_total_bin <= w.lo
              /\ w.hi <= (tid + 1) * 2 * At(ds.feature_groups, ParGroup).num_total_bin

\* all the chunks of a group were built and all its merge blocks have run,
\* with several of each
C26_Witness ==
  /\ pc = "merge"
  /\ Cardinality(bundle.built) >= 2
  /\ Cardinality(bundle.ran) >= 2
  /\ \A x \in bundle.ran : x.writes # {} /\ x.reads # {}
  /\ bundle.gi = 1

---------------------------------------------------------------------------
(* Properties of the forced single-val groups of FindGroups *)

InSecondRound == pc \in {"second", "returned"}

SecondRoundGroups == 1..Len(bundle.st.features_in_group)

\* C27: a group kept from the first round (forced single-val) is never
\* flagged multi-valued: whatever features the second round adds to it,
\* group_total_data_cnt[g] - group_used_row_cnt[g] stays at most
\* single_val_max_conflict_cnt, and multi_val_group[g] is false in the
\* returned flags.
C27_ForcedGroupStaysSingleVal ==
  /\ InSecondRound =>
       \A g \in SecondRoundGroups :
         /\ bundle.st.forced_single_val_group[g]
              <=> g <= Len(KeptGroups(bundle.cx, bundle.first))
         /\ bundle.st.forced_single_val_group[g] =>
              /\ bundle.st.group_total_data_cnt[g] - bundle.st.group_used_row_cnt[g]
                   <= single_val_max_conflict_cnt(bundle.cx)
              /\ ~bundle.st.multi_val_group[g]
  /\ FindReturned =>
       \A g \in SecondRoundGroups :
         bundle.st.forced_single_val_group[g] => ~call.multi_val_group[g]

\* the second round has added a feature to a forced single-val group, after
\* a feature that collides with the rows of the group was turned away from it
C27_Witness ==
  /\ SecondRoundStepped
  /\ \E g \in 1..Len(call.before.features_in_group) :
       /\ call.before.forced_single_val_group[g]
       /\ bundle.st.features_in_group[g] = Append(call.before.features_in_group[g], call.fidx)
       /\ \E q \in SecondRoundGroups :
            /\ ~bundle.st.forced_single_val_group[q]
            /\ \E f \in Range(bundle.st.features_in_group[q]) :
                 /\ ~is_filtered_feature(bundle.cx, f)
                 /\ \E r \in Range(At(bundle.cx.sample_indices, f)) :
                      At(call.before.conflict_marks[g], r) # 0

====
